---- MODULE Spec2Model ----
(***************************************************************************)
(* rmw_libp2p: Listener, GuardCondition, rmw_wait and the request/response *)
(* correlation of rmw_request.cpp / rmw_response.cpp.                      *)
(*                                                                         *)
(* Threads: one application thread inside libp2p_c__rmw_wait (the waiter), *)
(* transport threads running Listener::on_publication and                  *)
(* GuardCondition::trigger (the deliverers), and application calls that    *)
(* complete under one lock (take_next_data, getHasTriggered).              *)
(* A std::mutex is the set of threads holding it: {} is unlocked.          *)
(***************************************************************************)
EXTENDS Integers, Sequences, FiniteSets, TLC

\* ---------------------------------------------------------------- bounds
NumListeners == 2
NumGuards == 1
NumDeliverers == 1
MaxPush == 2
MaxTrigger == 1
MaxWaitCalls == 1
MaxSpurious == 1
MaxTake == 1

Listeners == 1..NumListeners
Guards == 1..NumGuards
Deliverers == 1..NumDeliverers
WaiterThread == NumDeliverers + 1

\* nullptr: a detached Listener/GuardCondition, a cleared subscribers[i]
NULL == 0
\* the address of the wait set's condition_mutex / condition pair
WaitSetPair == NumListeners + NumGuards + 1

RMW_RET_OK == "RMW_RET_OK"
RMW_RET_ERROR == "RMW_RET_ERROR"
RMW_RET_TIMEOUT == "RMW_RET_TIMEOUT"

\* wait_timeout: a null pointer, {0,0}, or a positive duration
NoTimeout == "null"
ZeroTimeout == "zero"
PositiveTimeout == "positive"
Timeouts == {NoTimeout, ZeroTimeout, PositiveTimeout}

\* a test that takes every timeout given for a duration to wait for
WaitsForDurationAlways(t) == TRUE

\* line 114: wait_timeout->sec > 0 || wait_timeout->nsec > 0
WaitsForDuration(t) == t = PositiveTimeout

VARIABLES
  \* Listener
  message_queue_,      \* [Listeners -> Seq(payload)]
  internal_mutex_,     \* [Listeners -> SUBSET threads]
  condition_mutex_,    \* [Listeners -> NULL or WaitSetPair] (condition_variable_ moves with it)
  \* GuardCondition
  has_triggered_,      \* [Guards -> BOOLEAN]
  gc_internal_mutex_,  \* [Guards -> SUBSET threads]
  gc_condition_mutex_, \* [Guards -> NULL or WaitSetPair]
  \* CustomWaitsetInfo
  condition_mutex,     \* SUBSET threads
  \* libp2p_c__rmw_wait, the waiter's frame
  pcW,                 \* position of the waiter
  subscribers,         \* subscriptions->subscribers, the caller's array
  guard_conditions,    \* guard_conditions->guard_conditions, the caller's array
  wait_timeout,        \* the timeout argument
  wait_set,            \* the wait_set argument: NULL or the wait set's pair
  wIdx,                \* loop index i
  has_data,            \* local has_data
  timeout,             \* local timeout
  cvTimedOut,          \* wait_for's deadline passed while blocked
  wRet,                \* the value returned
  \* Listener::on_publication / GuardCondition::trigger frames
  pcD,                 \* [Deliverers -> position]
  dListener,           \* [Deliverers -> listener being delivered to]
  dData,               \* [Deliverers -> payload being delivered]
  \* history (not program state)
  pushed,              \* [Listeners -> Seq(payload)] in the order the pushes happened
  taken,               \* [Listeners -> Seq(payload)] in the order take_next_data returned them
  nPush, nTrigger, nCalls, nSpurious, nTake,
  listed,              \* the subscribers array as passed to the current wait call
  gcTriggeredBefore,   \* listed guards triggered before the current wait call and not reset since
  everBlocked,         \* the current wait call blocked on the condition variable
  triggeredBlocked,    \* guards triggered while the current wait call was blocked, not reset since
  tookDuringWait,      \* a take_next_data ran while the current wait call was in progress
  pushedAfterUnlock,   \* listeners pushed to after the current wait call released condition_mutex
  postCheck,           \* per listed handle: what has_data() returned at line 136, and whether
                       \* a take_next_data on that listener has run since
  \* transport (rs_libp2p_custom_publisher / subscription)
  buffers,             \* [message pointer -> the bytes handed to on_publication]
  inflight,            \* messages published and not yet handed to a listener
  sequence_number,     \* the client request publisher's sequence counter
  nPublishers,         \* publisher handles created so far
  publisher_topic,     \* [publisher handle -> the topic it was created with]
  \* CustomServiceInfo
  requests_,           \* std::map<rmw_request_id_t, rs_libp2p_custom_publisher_t *>
  \* the last rmw_* request/response call and what it returned
  call,
  \* history (not program state)
  returnedIds,         \* request ids rmw_take_request has returned
  outstanding,         \* of those, the ones no rmw_send_response has returned for since
  nInserted, nErased, nRequests,
  \* the threads of test_guard_condition_class.cpp
  mutex,               \* holders of the test's std::mutex (the attached pair's mutex)
  pcT,                 \* [TriggerThreads -> position in trigger()]
  nTriggers,           \* [TriggerThreads -> trigger() calls that returned]
  pcWaiter,            \* position of the thread in cv.wait_for
  notified,            \* the test's flag: wait_for returned true
  waiterTimedOut,      \* the deadline of the wait_for passed
  nWaiterSpurious,
  nAttachDetach,       \* attachCondition / detachCondition calls so far
  gcCall,              \* the last hasTriggered / getHasTriggered call and its return
  getResults,          \* history: what the getHasTriggered calls returned, in order
  nPeek,
  storedSinceGet,      \* history: threads whose trigger stored the flag since the last get
  completedSinceGet,   \* history: one of those triggers has returned
  \* the context lifecycle
  init_options,        \* rmw_init_options_t of the fixture
  context,             \* rmw_context_t of the fixture
  node_,               \* the fixture's node handle, NULL when none
  created_publishers,  \* the publisher handles rmw_create_publisher has returned
  lifeCall,            \* the last lifecycle call and what it returned
  nLifeCalls,
  shutdownOk,          \* history: rmw_shutdown returned RMW_RET_OK for the current context
  created_subscriptions,  \* the subscription handles rmw_create_subscription has returned
  guard_condition_handle_,  \* the handle rmw_create_guard_condition returned, null when none
  \* the wire codec
  fields,              \* the values to write, in order
  buffer_,             \* the bytes of the WriteCDRBuffer, later the ReadCDRBuffer's
  nWritten,            \* fields written so far
  rpos,                \* the read cursor (index of the next byte)
  readValues,          \* what each operator>> so far handed back and consumed
  codec_status,        \* "running", or "panicked" once a read ended the process
  \* application threads calling into one service
  pcS,                 \* [ServiceThreads -> where the thread is in its call]
  sKey,                \* [ServiceThreads -> sequence number of the request id of its call]
  nTakenRequests,      \* requests rmw_take_request has taken from the listener
  \* several rmw_wait calls at a time
  wsPc,                \* [Waiters -> position in libp2p_c__rmw_wait]
  wsSubscribers,       \* [Waiters -> subscriptions->subscribers of the call]
  wsServices,          \* [Waiters -> services->services of the call]
  wsClients,           \* [Waiters -> clients->clients of the call]
  wsTimeoutArg,        \* [Waiters -> wait_timeout]
  wsIdx,               \* [Waiters -> loop index i]
  wsTimeout,           \* [Waiters -> local timeout]
  wsCvTimedOut,        \* [Waiters -> the deadline of wait_for passed while blocked]
  wsRet,               \* [Waiters -> the value returned]
  wsListed,            \* history: the subscribers array as passed to the call
  wsReadyEndpoints,    \* history: listed service / client listeners that had data when
                       \* the call began and have not been taken from since
  wsMutex,             \* [Waiters -> holders of the wait set's condition_mutex]
  lsQueue,             \* [WsListeners -> message_queue_]
  lsInternal,          \* [WsListeners -> holders of internal_mutex_]
  lsPair,              \* [WsListeners -> condition_mutex_ / condition_variable_: NULL or
                       \* the wait set whose pair is attached]
  tpPc,                \* position of the transport thread in on_publication
  tpListener,          \* the listener it delivers to
  apPc,                \* position of the application thread in take_next_data
  apListener,          \* the listener it takes from
  nWsCalls, nLsPush, nLsTake

waitVars == <<message_queue_, internal_mutex_, condition_mutex_, has_triggered_,
              gc_internal_mutex_, gc_condition_mutex_, condition_mutex, pcW,
              subscribers, guard_conditions, wait_timeout, wIdx, has_data, timeout,
              cvTimedOut, wRet, pcD, dListener, dData, pushed, taken, nPush,
              nTrigger, nCalls, nSpurious, nTake, listed, gcTriggeredBefore,
              everBlocked, triggeredBlocked, tookDuringWait, pushedAfterUnlock, wait_set,
              postCheck>>

\* ------------------------------------------------------------- Listener
\* a push at the wrong end of the queue
QueuePushFront(q, d) == <<d>> \o q

\* std::queue::push
QueuePush(q, d) == Append(q, d)

\* std::queue::front
QueueFront(q) == Head(q)

\* std::queue::pop
QueuePop(q) == Tail(q)

\* a has_data that always reports data
HasDataAlways(l) == TRUE

\* Listener::has_data
HasData(l) == Len(message_queue_[l]) > 0

\* a readiness check that never finds anything
CheckWaitSetForDataNever(subs) == FALSE

\* check_wait_set_for_data over the caller's subscribers array
CheckWaitSetForData(subs) ==
  \E i \in 1..Len(subs) : subs[i] # NULL /\ HasData(subs[i])

\* a notification that is never issued
NotifyOneDropped(pc) == pc

\* condition_variable::notify_one as seen by the only waiter of the pair
NotifyOne(pc) == IF pc = "cv_block" THEN "cv_reacquire" ELSE pc

InitWait ==
  /\ message_queue_ = [l \in Listeners |-> <<>>]
  /\ internal_mutex_ = [l \in Listeners |-> {}]
  /\ condition_mutex_ = [l \in Listeners |-> NULL]
  /\ has_triggered_ = [g \in Guards |-> FALSE]
  /\ gc_internal_mutex_ = [g \in Guards |-> {}]
  /\ gc_condition_mutex_ = [g \in Guards |-> NULL]
  /\ condition_mutex = {}
  /\ pcW = "idle"
  /\ subscribers = <<>>
  /\ guard_conditions = <<>>
  /\ wait_timeout = NoTimeout
  /\ wIdx = 1
  /\ has_data = FALSE
  /\ timeout = FALSE
  /\ cvTimedOut = FALSE
  /\ wRet = RMW_RET_OK
  /\ pcD = [d \in Deliverers |-> "idle"]
  /\ dListener = [d \in Deliverers |-> 1]
  /\ dData = [d \in Deliverers |-> 0]
  /\ pushed = [l \in Listeners |-> <<>>]
  /\ taken = [l \in Listeners |-> <<>>]
  /\ nPush = 0
  /\ nTrigger = 0
  /\ nCalls = 0
  /\ nSpurious = 0
  /\ nTake = 0
  /\ listed = <<>>
  /\ gcTriggeredBefore = {}
  /\ everBlocked = FALSE
  /\ triggeredBlocked = {}
  /\ tookDuringWait = FALSE
  /\ pushedAfterUnlock = {}
  /\ wait_set = WaitSetPair
  /\ postCheck = <<>>

\* ------------------------------------------------- Listener::on_publication
\* lock_guard on internal_mutex_, then the branch on condition_mutex_; the
\* detached branch pushes and returns, releasing internal_mutex_
OnPublicationBegin(d, l, message) ==
  /\ pcD[d] = "idle"
  /\ nPush < MaxPush
  /\ internal_mutex_[l] = {}
  /\ nPush' = nPush + 1
  /\ IF condition_mutex_[l] # NULL
       THEN /\ internal_mutex_' = [internal_mutex_ EXCEPT ![l] = {d}]
            /\ pcD' = [pcD EXCEPT ![d] = "lock_cond"]
            /\ dListener' = [dListener EXCEPT ![d] = l]
            /\ dData' = [dData EXCEPT ![d] = message]
            /\ UNCHANGED <<message_queue_, pushed, pushedAfterUnlock>>
       ELSE /\ message_queue_' = [message_queue_ EXCEPT ![l] = QueuePush(@, message)]
            /\ pushed' = [pushed EXCEPT ![l] = Append(@, message)]
            /\ pushedAfterUnlock' = IF pcW \in {"detach", "post_check"}
                                      THEN pushedAfterUnlock \cup {l}
                                      ELSE pushedAfterUnlock
            /\ UNCHANGED <<internal_mutex_, pcD, dListener, dData>>
  /\ UNCHANGED <<condition_mutex_, has_triggered_, gc_internal_mutex_, gc_condition_mutex_,
                 condition_mutex, pcW, subscribers, guard_conditions, wait_timeout, wait_set, postCheck, wIdx,
                 has_data, timeout, cvTimedOut, wRet, taken, nTrigger, nCalls, nSpurious,
                 nTake, listed, gcTriggeredBefore, everBlocked, triggeredBlocked, tookDuringWait>>

\* unique_lock clock(*listener->condition_mutex_)
OnPublicationLockCond(d) ==
  /\ pcD[d] = "lock_cond"
  /\ condition_mutex = {}
  /\ condition_mutex' = {d}
  /\ pcD' = [pcD EXCEPT ![d] = "push"]
  /\ UNCHANGED <<message_queue_, internal_mutex_, condition_mutex_, has_triggered_,
                 gc_internal_mutex_, gc_condition_mutex_, pcW, subscribers,
                 guard_conditions, wait_timeout, wait_set, postCheck, wIdx, has_data, timeout, cvTimedOut,
                 wRet, dListener, dData, pushed, taken, nPush, nTrigger, nCalls,
                 nSpurious, nTake, listed, gcTriggeredBefore, everBlocked, triggeredBlocked,
                 tookDuringWait, pushedAfterUnlock>>

\* message_queue_.push under both locks, then clock.unlock()
OnPublicationPush(d) ==
  /\ pcD[d] = "push"
  /\ message_queue_' = [message_queue_ EXCEPT ![dListener[d]] = QueuePush(@, dData[d])]
  /\ pushed' = [pushed EXCEPT ![dListener[d]] = Append(@, dData[d])]
  /\ pushedAfterUnlock' = IF pcW \in {"detach", "post_check"}
                            THEN pushedAfterUnlock \cup {dListener[d]}
                            ELSE pushedAfterUnlock
  /\ condition_mutex' = {}
  /\ pcD' = [pcD EXCEPT ![d] = "notify"]
  /\ UNCHANGED <<internal_mutex_, condition_mutex_, has_triggered_, gc_internal_mutex_,
                 gc_condition_mutex_, pcW, subscribers, guard_conditions, wait_timeout, wait_set, postCheck,
                 wIdx, has_data, timeout, cvTimedOut, wRet, dListener, dData, taken,
                 nPush, nTrigger, nCalls, nSpurious, nTake, listed, gcTriggeredBefore,
                 everBlocked, triggeredBlocked, tookDuringWait>>

\* condition_variable_->notify_one(), then the lock_guard releases internal_mutex_
OnPublicationNotify(d) ==
  /\ pcD[d] = "notify"
  /\ pcW' = NotifyOne(pcW)
  /\ internal_mutex_' = [internal_mutex_ EXCEPT ![dListener[d]] = {}]
  /\ pcD' = [pcD EXCEPT ![d] = "idle"]
  /\ dListener' = [dListener EXCEPT ![d] = 1]
  /\ dData' = [dData EXCEPT ![d] = 0]
  /\ UNCHANGED <<message_queue_, condition_mutex_, has_triggered_, gc_internal_mutex_,
                 gc_condition_mutex_, condition_mutex, subscribers, guard_conditions,
                 wait_timeout, wait_set, postCheck, wIdx, has_data, timeout, cvTimedOut, wRet, pushed, taken, nPush, nTrigger, nCalls, nSpurious, nTake, listed,
                 gcTriggeredBefore, everBlocked, triggeredBlocked, tookDuringWait, pushedAfterUnlock>>

\* Listener::take_next_data on a non-empty queue; on an empty one it returns
\* false and changes nothing
TakeNextData(l) ==
  /\ nTake < MaxTake
  /\ internal_mutex_[l] = {}
  /\ ~ (message_queue_[l] = <<>>)
  /\ taken' = [taken EXCEPT ![l] = Append(@, QueueFront(message_queue_[l]))]
  /\ message_queue_' = [message_queue_ EXCEPT ![l] = QueuePop(@)]
  /\ nTake' = nTake + 1
  /\ tookDuringWait' = (tookDuringWait \/ pcW \notin {"idle", "done"})
  /\ postCheck' = [i \in 1..Len(postCheck) |->
                     IF listed[i] = l /\ postCheck[i] = "nonempty" THEN "taken"
                                                                 ELSE postCheck[i]]
  /\ UNCHANGED <<internal_mutex_, condition_mutex_, has_triggered_, gc_internal_mutex_,
                 gc_condition_mutex_, condition_mutex, pcW, subscribers, guard_conditions,
                 wait_timeout, wait_set, wIdx, has_data, timeout, cvTimedOut, wRet, pcD, dListener,
                 dData, pushed, nPush, nTrigger, nCalls, nSpurious, listed,
                 gcTriggeredBefore, everBlocked, triggeredBlocked, pushedAfterUnlock>>

\* ------------------------------------------------------------ GuardCondition
\* GuardCondition::trigger. With a pair attached it sets the flag under the
\* pair's mutex and notifies; with none attached it sets the flag under
\* internal_mutex_ and returns. rmw_wait never attaches a guard condition, so
\* only the second branch is taken by the calls of this model.
Trigger(d, g) ==
  /\ pcD[d] = "idle"
  /\ nTrigger < MaxTrigger
  /\ gc_internal_mutex_[g] = {}
  /\ nTrigger' = nTrigger + 1
  /\ has_triggered_' = [has_triggered_ EXCEPT ![g] = TRUE]
  /\ triggeredBlocked' = IF pcW = "cv_block" THEN triggeredBlocked \cup {g}
                                              ELSE triggeredBlocked
  /\ IF gc_condition_mutex_[g] # NULL
       THEN /\ condition_mutex = {}
            /\ pcW' = NotifyOne(pcW)
       ELSE UNCHANGED pcW
  /\ UNCHANGED <<message_queue_, internal_mutex_, condition_mutex_, gc_internal_mutex_,
                 gc_condition_mutex_, condition_mutex, subscribers, guard_conditions,
                 wait_timeout, wait_set, postCheck, wIdx, has_data, timeout, cvTimedOut, wRet, pcD, dListener,
                 dData, pushed, taken, nPush, nCalls, nSpurious, nTake, listed,
                 gcTriggeredBefore, everBlocked, tookDuringWait, pushedAfterUnlock>>

\* GuardCondition::getHasTriggered: has_triggered_.exchange(false)
GetHasTriggered(g) ==
  /\ has_triggered_[g]
  /\ has_triggered_' = [has_triggered_ EXCEPT ![g] = FALSE]
  /\ gcTriggeredBefore' = gcTriggeredBefore \ {g}
  /\ triggeredBlocked' = triggeredBlocked \ {g}
  /\ UNCHANGED <<message_queue_, internal_mutex_, condition_mutex_, gc_internal_mutex_,
                 gc_condition_mutex_, condition_mutex, pcW, subscribers, guard_conditions,
                 wait_timeout, wait_set, postCheck, wIdx, has_data, timeout, cvTimedOut, wRet, pcD, dListener,
                 dData, pushed, taken, nPush, nTrigger, nCalls, nSpurious, nTake, listed,
                 everBlocked, tookDuringWait, pushedAfterUnlock>>

\* --------------------------------------------------------- libp2p_c__rmw_wait
gcVars == <<has_triggered_, gc_internal_mutex_, gc_condition_mutex_>>
dVars == <<pcD, dListener, dData>>
histVars == <<pushed, taken, nPush, nTrigger, nTake>>

\* the subscribers arrays and guard_conditions arrays a caller passes
SubscriberArrays == {<<>>, <<1>>, <<NumListeners>>, <<1, NumListeners>>}
GuardArrays == {<<>>, <<1>>}

\* a null check that is left out
ArgumentsInvalidNever(ws) == FALSE

\* lines 69-88: the null checks on wait_set and on its data
ArgumentsInvalid(ws) == ws = NULL

\* entry: the null checks on wait_set (lines 65-88), which return
\* RMW_RET_ERROR before anything is attached
WaitCall(subs, gcs, t, ws) ==
  /\ pcW \in {"idle", "done"}
  /\ nCalls < MaxWaitCalls
  /\ nCalls' = nCalls + 1
  /\ subscribers' = subs
  /\ guard_conditions' = gcs
  /\ wait_timeout' = t
  /\ listed' = subs
  /\ gcTriggeredBefore' = {gcs[i] : i \in 1..Len(gcs)} \cap {g \in Guards : has_triggered_[g]}
  /\ everBlocked' = FALSE
  /\ triggeredBlocked' = {}
  /\ tookDuringWait' = FALSE
  /\ pushedAfterUnlock' = {}
  /\ wIdx' = 1
  /\ has_data' = FALSE
  /\ timeout' = FALSE
  /\ cvTimedOut' = FALSE
  /\ wait_set' = ws
  /\ postCheck' = [i \in 1..Len(subs) |-> "pending"]
  /\ IF ArgumentsInvalid(ws)
       THEN pcW' = "done" /\ wRet' = RMW_RET_ERROR
       ELSE pcW' = "attach" /\ wRet' = RMW_RET_OK
  /\ UNCHANGED <<message_queue_, internal_mutex_, condition_mutex_, condition_mutex,
                 nSpurious, gcVars, dVars, histVars>>

\* lines 90-96: attach_condition on subscribers[i] (lock_guard on the
\* listener's internal_mutex_); after the last one, go on to line 102
WaitAttach ==
  /\ pcW = "attach"
  /\ IF wIdx <= Len(subscribers)
       THEN /\ internal_mutex_[subscribers[wIdx]] = {}
            /\ condition_mutex_' = [condition_mutex_ EXCEPT ![subscribers[wIdx]] = WaitSetPair]
            /\ wIdx' = wIdx + 1
            /\ pcW' = pcW
       ELSE /\ pcW' = "lock"
            /\ UNCHANGED <<condition_mutex_, wIdx>>
  /\ UNCHANGED <<message_queue_, internal_mutex_, condition_mutex, subscribers,
                 guard_conditions, wait_timeout, wait_set, postCheck, has_data, timeout, cvTimedOut, wRet,
                 nCalls, nSpurious, listed, gcTriggeredBefore, everBlocked, triggeredBlocked,
                 tookDuringWait, pushedAfterUnlock, gcVars, dVars, histVars>>

\* line 102: unique_lock lock(*condition_mutex)
WaitLock ==
  /\ pcW = "lock"
  /\ condition_mutex = {}
  /\ condition_mutex' = {WaiterThread}
  /\ pcW' = "check"
  /\ UNCHANGED <<message_queue_, internal_mutex_, condition_mutex_, subscribers,
                 guard_conditions, wait_timeout, wait_set, postCheck, wIdx, has_data, timeout, cvTimedOut,
                 wRet, nCalls, nSpurious, listed, gcTriggeredBefore, everBlocked, triggeredBlocked,
                 tookDuringWait, pushedAfterUnlock, gcVars, dVars, histVars>>

\* a choice of wait, wait_for or no wait that does not look at has_data
WaitCheckIgnoringData ==
  /\ pcW = "check"
  /\ has_data' = CheckWaitSetForData(subscribers)
  /\ IF wait_timeout # NoTimeout /\ ~ WaitsForDuration(wait_timeout)
       THEN pcW' = "unlock" /\ timeout' = TRUE
       ELSE pcW' = "cv_pred" /\ timeout' = FALSE
  /\ UNCHANGED <<message_queue_, internal_mutex_, condition_mutex_, condition_mutex,
                 subscribers, guard_conditions, wait_timeout, wait_set, postCheck, wIdx,
                 cvTimedOut, wRet, nCalls, nSpurious, listed, gcTriggeredBefore,
                 everBlocked, triggeredBlocked, tookDuringWait, pushedAfterUnlock, gcVars, dVars, histVars>>

\* lines 104-122: has_data = check_wait_set_for_data(...) and the choice of
\* wait, wait_for or no wait at all
WaitCheck ==
  /\ pcW = "check"
  /\ has_data' = CheckWaitSetForData(subscribers)
  /\ IF CheckWaitSetForData(subscribers)
       THEN pcW' = "unlock" /\ timeout' = FALSE
       ELSE IF wait_timeout # NoTimeout /\ ~ WaitsForDuration(wait_timeout)
              THEN pcW' = "unlock" /\ timeout' = TRUE
              ELSE pcW' = "cv_pred" /\ timeout' = FALSE
  /\ UNCHANGED <<message_queue_, internal_mutex_, condition_mutex_, condition_mutex,
                 subscribers, guard_conditions, wait_timeout, wait_set, postCheck, wIdx, cvTimedOut, wRet,
                 nCalls, nSpurious, listed, gcTriggeredBefore, everBlocked, triggeredBlocked,
                 tookDuringWait, pushedAfterUnlock, gcVars, dVars, histVars>>

\* condition_variable::wait(lock, predicate) and wait_for(lock, n, predicate):
\* while (!predicate()) wait(lock); the wait releases the mutex and blocks
WaitPredicate ==
  /\ pcW = "cv_pred"
  /\ IF CheckWaitSetForData(subscribers)
       THEN /\ pcW' = "unlock"
            /\ timeout' = FALSE
            /\ UNCHANGED <<condition_mutex, everBlocked>>
       ELSE /\ pcW' = "cv_block"
            /\ condition_mutex' = {}
            /\ everBlocked' = TRUE
            /\ UNCHANGED timeout
  /\ UNCHANGED <<triggeredBlocked, message_queue_, internal_mutex_, condition_mutex_, subscribers,
                 guard_conditions, wait_timeout, wait_set, postCheck, wIdx, has_data, cvTimedOut, wRet,
                 nCalls, nSpurious, listed, gcTriggeredBefore, tookDuringWait,
                 pushedAfterUnlock, gcVars, dVars, histVars>>

\* a spurious wake-up of the blocked waiter
SpuriousWakeup ==
  /\ pcW = "cv_block"
  /\ nSpurious < MaxSpurious
  /\ nSpurious' = nSpurious + 1
  /\ pcW' = "cv_reacquire"
  /\ UNCHANGED <<message_queue_, internal_mutex_, condition_mutex_, condition_mutex,
                 subscribers, guard_conditions, wait_timeout, wait_set, postCheck, wIdx, has_data, timeout,
                 cvTimedOut, wRet, nCalls, listed, gcTriggeredBefore, everBlocked, triggeredBlocked,
                 tookDuringWait, pushedAfterUnlock, gcVars, dVars, histVars>>

\* a deadline that never passes
DeadlineNever == FALSE /\ UNCHANGED <<waitVars>>

\* wait_for only: the duration n elapses while the waiter is blocked
DeadlineElapses ==
  /\ pcW = "cv_block"
  /\ wait_timeout # NoTimeout /\ WaitsForDuration(wait_timeout)
  /\ cvTimedOut' = TRUE
  /\ pcW' = "cv_reacquire"
  /\ UNCHANGED <<message_queue_, internal_mutex_, condition_mutex_, condition_mutex,
                 subscribers, guard_conditions, wait_timeout, wait_set, postCheck, wIdx, has_data, timeout,
                 wRet, nCalls, nSpurious, listed, gcTriggeredBefore, everBlocked, triggeredBlocked,
                 tookDuringWait, pushedAfterUnlock, gcVars, dVars, histVars>>

\* a woken waiter that returns without testing the predicate again
WaitReacquireNoRecheck ==
  /\ pcW = "cv_reacquire"
  /\ condition_mutex = {}
  /\ condition_mutex' = {WaiterThread}
  /\ pcW' = "unlock"
  /\ timeout' = IF cvTimedOut THEN ~ CheckWaitSetForData(subscribers) ELSE timeout
  /\ UNCHANGED <<message_queue_, internal_mutex_, condition_mutex_, subscribers,
                 guard_conditions, wait_timeout, wait_set, postCheck, wIdx, has_data,
                 cvTimedOut, wRet, nCalls, nSpurious, listed, gcTriggeredBefore,
                 everBlocked, triggeredBlocked, tookDuringWait, pushedAfterUnlock, gcVars, dVars, histVars>>

\* the woken waiter re-locks the mutex; after a deadline wait_for returns
\* predicate() and line 118 sets timeout = !that, else the loop re-tests
WaitReacquire ==
  /\ pcW = "cv_reacquire"
  /\ condition_mutex = {}
  /\ condition_mutex' = {WaiterThread}
  /\ IF cvTimedOut
       THEN pcW' = "unlock" /\ timeout' = ~ CheckWaitSetForData(subscribers)
       ELSE pcW' = "cv_pred" /\ timeout' = timeout
  /\ UNCHANGED <<message_queue_, internal_mutex_, condition_mutex_, subscribers,
                 guard_conditions, wait_timeout, wait_set, postCheck, wIdx, has_data, cvTimedOut, wRet,
                 nCalls, nSpurious, listed, gcTriggeredBefore, everBlocked, triggeredBlocked,
                 tookDuringWait, pushedAfterUnlock, gcVars, dVars, histVars>>

\* an unlock that is left out
UnlockOmitted(m, t) == m

\* std::unique_lock::unlock by thread t
Unlock(m, t) == m \ {t}

\* line 129: lock.unlock()
WaitUnlock ==
  /\ pcW = "unlock"
  /\ condition_mutex' = Unlock(condition_mutex, WaiterThread)
  /\ wIdx' = 1
  /\ pcW' = "detach"
  /\ UNCHANGED <<message_queue_, internal_mutex_, condition_mutex_, subscribers,
                 guard_conditions, wait_timeout, wait_set, postCheck, has_data, timeout, cvTimedOut, wRet,
                 nCalls, nSpurious, listed, gcTriggeredBefore, everBlocked, triggeredBlocked,
                 tookDuringWait, pushedAfterUnlock, gcVars, dVars, histVars>>

\* a loop step that leaves the listener attached
WaitDetachSkipped ==
  /\ pcW = "detach"
  /\ wIdx <= Len(subscribers)
  /\ internal_mutex_[subscribers[wIdx]] = {}
  /\ pcW' = "post_check"
  /\ UNCHANGED <<message_queue_, internal_mutex_, condition_mutex_, condition_mutex,
                 subscribers, guard_conditions, wait_timeout, wait_set, postCheck, wIdx,
                 has_data, timeout, cvTimedOut, wRet, nCalls, nSpurious, listed,
                 gcTriggeredBefore, everBlocked, triggeredBlocked, tookDuringWait, pushedAfterUnlock,
                 gcVars, dVars, histVars>>

\* line 135: detach_condition on subscribers[i] (lock_guard on the
\* listener's internal_mutex_)
WaitDetach ==
  /\ pcW = "detach"
  /\ wIdx <= Len(subscribers)
  /\ internal_mutex_[subscribers[wIdx]] = {}
  /\ condition_mutex_' = [condition_mutex_ EXCEPT ![subscribers[wIdx]] = NULL]
  /\ pcW' = "post_check"
  /\ UNCHANGED <<message_queue_, internal_mutex_, condition_mutex, subscribers,
                 guard_conditions, wait_timeout, wait_set, postCheck, wIdx, has_data, timeout, cvTimedOut,
                 wRet, nCalls, nSpurious, listed, gcTriggeredBefore, everBlocked, triggeredBlocked,
                 tookDuringWait, pushedAfterUnlock, gcVars, dVars, histVars>>

\* lines 136-138: if (!has_data()) subscribers[i] = 0
WaitPostCheck ==
  /\ pcW = "post_check"
  /\ subscribers' = IF HasData(subscribers[wIdx])
                      THEN subscribers
                      ELSE [subscribers EXCEPT ![wIdx] = NULL]
  /\ postCheck' = [postCheck EXCEPT ![wIdx] =
                     IF message_queue_[subscribers[wIdx]] # <<>> THEN "nonempty" ELSE "empty"]
  /\ wIdx' = wIdx + 1
  /\ pcW' = "detach"
  /\ UNCHANGED <<message_queue_, internal_mutex_, condition_mutex_, condition_mutex,
                 guard_conditions, wait_timeout, wait_set, has_data, timeout, cvTimedOut, wRet,
                 nCalls, nSpurious, listed, gcTriggeredBefore, everBlocked, triggeredBlocked,
                 tookDuringWait, pushedAfterUnlock, gcVars, dVars, histVars>>

\* line 142: return timeout ? RMW_RET_TIMEOUT : RMW_RET_OK
WaitReturn ==
  /\ pcW = "detach"
  /\ wIdx > Len(subscribers)
  /\ wRet' = IF timeout THEN RMW_RET_TIMEOUT ELSE RMW_RET_OK
  /\ pcW' = "done"
  /\ UNCHANGED <<message_queue_, internal_mutex_, condition_mutex_, condition_mutex,
                 subscribers, guard_conditions, wait_timeout, wait_set, postCheck, wIdx, has_data, timeout,
                 cvTimedOut, nCalls, nSpurious, listed, gcTriggeredBefore, everBlocked, triggeredBlocked,
                 tookDuringWait, pushedAfterUnlock, gcVars, dVars, histVars>>

rpcVars == <<buffers, inflight, sequence_number, nPublishers, publisher_topic, requests_, call,
             returnedIds, outstanding, nInserted, nErased, nRequests>>

\* ============================================================================
\* The GuardCondition class on its own, as the threads of
\* test_guard_condition_class.cpp use it: threads calling trigger(), a thread
\* attaching and detaching the pair (mutex, cv), a thread waiting on cv with
\* the predicate hasTriggered(), and calls of hasTriggered / getHasTriggered.

NumTriggerThreads == 2
TriggersPerThread == 1
MaxAttachDetach == 2
MaxGet == 2
MaxPeek == 1

TriggerThreads == 1..NumTriggerThreads
WaiterTestThread == NumTriggerThreads + 1

\* the GuardCondition object of a test
gc == 1

\* the pair (&mutex, &cv) a test attaches
TestPair == WaitSetPair + 1

classVars == <<mutex, pcT, nTriggers, pcWaiter, notified, waiterTimedOut, nWaiterSpurious,
               nAttachDetach, gcCall, getResults, nPeek, storedSinceGet, completedSinceGet>>

\* everything of the wait machine but the GuardCondition's fields
waitRest == <<message_queue_, internal_mutex_, condition_mutex_, condition_mutex, pcW,
              subscribers, guard_conditions, wait_timeout, wIdx, has_data, timeout,
              cvTimedOut, wRet, pcD, dListener, dData, pushed, taken, nPush, nTrigger,
              nCalls, nSpurious, nTake, listed, gcTriggeredBefore, everBlocked,
              triggeredBlocked, tookDuringWait, pushedAfterUnlock, wait_set, postCheck>>

waiterVars == <<pcWaiter, notified, waiterTimedOut, nWaiterSpurious>>
callVars == <<gcCall, getResults, nPeek>>

\* ============================================================================
\* The context, node and publisher lifecycle, as the tests of
\* test_rmw_init.cpp and test_rmw_publisher.cpp drive it.

MaxLifeCalls == 5
MaxCreatedPublishers == 2
MaxCreatedSubscriptions == 1

RMW_RET_INVALID_ARGUMENT == "RMW_RET_INVALID_ARGUMENT"
RMW_RET_INCORRECT_RMW_IMPLEMENTATION == "RMW_RET_INCORRECT_RMW_IMPLEMENTATION"

\* the identifier every handle of this implementation carries
libp2p_identifier == "rmw_libp2p_cpp"

\* a null const char *
NullStr == "(null)"

\* a null rmw_context_impl_t *
NullImpl == [allocated |-> FALSE, is_shutdown |-> FALSE]

\* a null rmw_node_t *
NullNode == [implementation_identifier |-> NullStr]

\* a null rmw_guard_condition_t *
NullGuard == [implementation_identifier |-> NullStr, data |-> NULL]

\* rmw_get_zero_initialized_init_options()
ZeroInitOptions == [implementation_identifier |-> NullStr, enclave |-> NullStr]

\* rmw_get_zero_initialized_context()
ZeroContext ==
  [implementation_identifier |-> NullStr, impl |-> NullImpl, options |-> ZeroInitOptions]

\* new (std::nothrow) rmw_context_impl_t(): value-initialized
NewContextImpl == [allocated |-> TRUE, is_shutdown |-> FALSE]

\* the topic names the tests create publishers with; the empty one is refused
TopicNames == {"", "test_topic"}

\* what the handles of subscriptions and guard conditions add to the fixture
apiVars == <<created_subscriptions, guard_condition_handle_>>

lifeVars == <<init_options, context, node_, created_publishers, lifeCall, nLifeCalls,
              shutdownOk, apiVars>>

\* ============================================================================
\* The wire codec: WriteCDRBuffer / ReadCDRBuffer of cdr_buffer.hpp over the
\* cursor functions of rmw_libp2p_rs.

MaxFields == 2
MaxExtraReads == 1

codecVars == <<fields, buffer_, nWritten, rpos, readValues, codec_status>>

\* ============================================================================
\* Application threads that call rmw_take_request and rmw_send_response on
\* the same service at the same time: their accesses to info->requests_.

NumServiceThreads == 2
MaxServiceRequests == 2

ServiceThreads == 1..NumServiceThreads

svcVars == <<pcS, sKey, nTakenRequests>>

\* everything of the request/response state but the map
rpcRest == <<buffers, inflight, sequence_number, nPublishers, publisher_topic, call,
             returnedIds, outstanding, nInserted, nErased, nRequests>>

\* ============================================================================
\* rmw_wait called by several threads, each on its own wait set, with
\* subscriptions, services and clients arrays; one transport thread calling
\* Listener::on_publication and one application thread calling
\* take_next_data. The guard_conditions argument is left out: rmw_wait never
\* reads it.

NumWaiters == 2
MaxWsCalls == 2
MaxLsPush == 1
MaxLsTake == 1

\* a waiter thread and the pair (condition_mutex, condition) of its wait set
\* carry the same number
Waiters == 1..NumWaiters
TransportThread == NumWaiters + 1
TakerThread == NumWaiters + 2

\* the listener of a subscription, of a service (its request listener) and
\* of a client (its response listener)
SubListener == 1
SvcListener == 2
CliListener == 3
WsListeners == {SubListener, SvcListener, CliListener}

\* the arrays a caller fills in before a wait
WsArguments ==
  {[subscribers |-> <<SubListener>>, services |-> <<>>, clients |-> <<>>],
   [subscribers |-> <<>>, services |-> <<SvcListener>>, clients |-> <<CliListener>>]}

mwVars == <<wsPc, wsSubscribers, wsServices, wsClients, wsTimeoutArg, wsIdx, wsTimeout,
            wsCvTimedOut, wsRet, wsListed, wsReadyEndpoints, wsMutex, lsQueue, lsInternal,
            lsPair, tpPc, tpListener, apPc, apListener, nWsCalls, nLsPush, nLsTake>>

vars == <<waitVars, rpcVars, classVars, lifeVars, codecVars, svcVars, mwVars>>

\* ------------------------------------------------------------------ WireCodec
\* the 16 bytes of a UUID written and read by the header loops
GidLen == 16
Int64Len == 8
Uint64Len == 8
Uint32Len == 4

\* static_cast<int8_t> of a byte
ToInt8(b) == IF b > 127 THEN b - 256 ELSE b

\* the byte written for an int8_t
FromInt8(v) == (v + 256) % 256

\* rs_libp2p_cdr_buffer_write_int64: fixed-width two's complement, low byte
\* first; defined for |n| < 2^23, the range of every sequence number here
WriteInt64(n) ==
  [i \in 1..Int64Len |->
     CASE i = 1 -> n % 256
       [] i = 2 -> (n \div 256) % 256
       [] i = 3 -> (n \div 65536) % 256
       [] OTHER -> IF n < 0 THEN 255 ELSE 0]

\* rs_libp2p_cdr_buffer_read_int64 of 8 bytes, same range
ReadInt64(b) ==
  IF b[Int64Len] >= 128
    THEN (b[1] + 256 * b[2] + 65536 * b[3]) - 16777216
    ELSE b[1] + 256 * b[2] + 65536 * b[3]

\* ReadCDRBuffer: the n bytes at the cursor; a read past the end leaves the
\* caller's zero-initialised destination as it was
ReadBytes(buf, pos, n) ==
  [i \in 1..n |-> IF pos + i - 1 <= Len(buf) THEN buf[pos + i - 1] ELSE 0]

\* serializeROSmessage / deserializeROSmessage for a message of PayloadLen
\* uint8 fields
PayloadLen == 2
SerializeRosMessage(msg) == msg
DeserializeRosMessage(buf, pos) == ReadBytes(buf, pos, PayloadLen)

\* ------------------------------------------------------------------ transport
ServiceListener == 1
ClientListener == NumListeners
\* publisher handles: the client's request publisher, then the response
\* publishers rs_libp2p_custom_publisher_new hands to rmw_take_request
ClientPublisher == 1

\* rs_libp2p_custom_publisher_get_gid: a UUID unique to the endpoint
PublisherGid(pub) == [i \in 1..GidLen |-> (pub * 67 + i * 29) % 256]

\* ------------------------------------------------------------------- topics
\* the service name given to rmw_create_client and rmw_create_service; a
\* topic is the sequence of the strings it is concatenated from
ServiceName == "add_two_ints"

\* rmw_create_client: std::string(service_name) + "/request"
RequestPublisherTopic(service_name) == <<service_name, "/request">>

\* rmw_create_service: the topic given to rs_libp2p_custom_subscription_new
ServiceSubscriptionTopic(service_name) == <<service_name>>

HexDigits == <<"0", "1", "2", "3", "4", "5", "6", "7",
               "8", "9", "a", "b", "c", "d", "e", "f">>

\* sprintf "%02x" of one byte
Hex(b) == <<HexDigits[(b \div 16) + 1], HexDigits[(b % 16) + 1]>>

\* sprintf "%02x%02x%02x%02x-%02x%02x-%02x%02x-%02x%02x-%02x%02x%02x%02x%02x%02x"
\* of 16 bytes
UuidStr(g) ==
  Hex(g[1]) \o Hex(g[2]) \o Hex(g[3]) \o Hex(g[4]) \o <<"-">>
    \o Hex(g[5]) \o Hex(g[6]) \o <<"-">> \o Hex(g[7]) \o Hex(g[8]) \o <<"-">>
    \o Hex(g[9]) \o Hex(g[10]) \o <<"-">> \o Hex(g[11]) \o Hex(g[12])
    \o Hex(g[13]) \o Hex(g[14]) \o Hex(g[15]) \o Hex(g[16])

\* rmw_create_client: service_name + "/response/" + uuid_str, with uuid_str
\* printed from the gid of the request publisher; the topic of the client's
\* response subscription
ClientResponseTopic(service_name, request_guid) ==
  <<service_name, "/response/">> \o UuidStr(request_guid)

\* rmw_take_request: service_name_ + "/response/" + uuid_str, with uuid_str
\* printed from static_cast<uint8_t>(writer_guid[i]); the topic of the
\* response publisher
TakeRequestTopic(service_name_, writer_guid) ==
  <<service_name_, "/response/">> \o UuidStr([i \in 1..GidLen |-> FromInt8(writer_guid[i])])

\* rmw_request_id_t: writer_guid as int8_t[16], sequence_number as int64_t
RequestId(guid, seq) == [writer_guid |-> guid, sequence_number |-> seq]

Payloads == {[i \in 1..PayloadLen |-> 42], [i \in 1..PayloadLen |-> 200 + i]}
UnknownId == RequestId([i \in 1..GidLen |-> 0 - 1], 99)

NoCall == [op |-> "none"]

InitRpc ==
  /\ buffers = <<>>
  /\ inflight = {}
  /\ sequence_number = 0
  /\ nPublishers = 1
  /\ publisher_topic = <<RequestPublisherTopic(ServiceName)>>
  /\ requests_ = [k \in {} |-> NULL]
  /\ call = NoCall
  /\ returnedIds = {}
  /\ outstanding = {}
  /\ nInserted = 0
  /\ nErased = 0
  /\ nRequests = 0

InitClass ==
  /\ mutex = {}
  /\ pcT = [t \in TriggerThreads |-> "idle"]
  /\ nTriggers = [t \in TriggerThreads |-> 0]
  /\ pcWaiter = "idle"
  /\ notified = FALSE
  /\ waiterTimedOut = FALSE
  /\ nWaiterSpurious = 0
  /\ nAttachDetach = 0
  /\ gcCall = NoCall
  /\ getResults = <<>>
  /\ nPeek = 0
  /\ storedSinceGet = {}
  /\ completedSinceGet = FALSE

\* has_triggered_ = true
StoreTrue(flag) == TRUE

\* trigger(): lock_guard on internal_mutex_, then the branch on
\* condition_mutex_; the detached branch sets the flag and returns
GcTriggerBegin(t) ==
  /\ pcT[t] = "idle"
  /\ nTriggers[t] < TriggersPerThread
  /\ gc_internal_mutex_[gc] = {}
  /\ IF gc_condition_mutex_[gc] # NULL
       THEN /\ gc_internal_mutex_' = [gc_internal_mutex_ EXCEPT ![gc] = {t}]
            /\ pcT' = [pcT EXCEPT ![t] = "lock_cond"]
            /\ UNCHANGED <<has_triggered_, nTriggers, storedSinceGet, completedSinceGet>>
       ELSE /\ has_triggered_' = [has_triggered_ EXCEPT ![gc] = StoreTrue(@)]
            /\ nTriggers' = [nTriggers EXCEPT ![t] = @ + 1]
            /\ storedSinceGet' = storedSinceGet \cup {t}
            /\ completedSinceGet' = TRUE
            /\ UNCHANGED <<gc_internal_mutex_, pcT>>
  /\ UNCHANGED <<gc_condition_mutex_, mutex, waiterVars, nAttachDetach, callVars>>

\* unique_lock clock(*condition_mutex_)
GcTriggerLockCond(t) ==
  /\ pcT[t] = "lock_cond"
  /\ mutex = {}
  /\ mutex' = {t}
  /\ pcT' = [pcT EXCEPT ![t] = "set"]
  /\ UNCHANGED <<gcVars, nTriggers, waiterVars, nAttachDetach, callVars, storedSinceGet,
                 completedSinceGet>>

\* has_triggered_ = true under both locks, then clock.unlock()
GcTriggerSet(t) ==
  /\ pcT[t] = "set"
  /\ has_triggered_' = [has_triggered_ EXCEPT ![gc] = StoreTrue(@)]
  /\ storedSinceGet' = storedSinceGet \cup {t}
  /\ mutex' = Unlock(mutex, t)
  /\ pcT' = [pcT EXCEPT ![t] = "notify"]
  /\ UNCHANGED <<gc_internal_mutex_, gc_condition_mutex_, nTriggers, waiterVars,
                 nAttachDetach, callVars, completedSinceGet>>

\* condition_variable_->notify_one(), then the lock_guard releases internal_mutex_
GcTriggerNotify(t) ==
  /\ pcT[t] = "notify"
  /\ pcWaiter' = NotifyOne(pcWaiter)
  /\ gc_internal_mutex_' = [gc_internal_mutex_ EXCEPT ![gc] = Unlock(@, t)]
  /\ pcT' = [pcT EXCEPT ![t] = "idle"]
  /\ nTriggers' = [nTriggers EXCEPT ![t] = @ + 1]
  /\ completedSinceGet' = (completedSinceGet \/ t \in storedSinceGet)
  /\ UNCHANGED <<has_triggered_, gc_condition_mutex_, mutex, notified, waiterTimedOut,
                 nWaiterSpurious, nAttachDetach, callVars, storedSinceGet>>

\* attachCondition(&mutex, &cv) under internal_mutex_
AttachCondition ==
  /\ nAttachDetach < MaxAttachDetach
  /\ gc_internal_mutex_[gc] = {}
  /\ gc_condition_mutex_' = [gc_condition_mutex_ EXCEPT ![gc] = TestPair]
  /\ nAttachDetach' = nAttachDetach + 1
  /\ UNCHANGED <<has_triggered_, gc_internal_mutex_, mutex, pcT, nTriggers, waiterVars,
                 callVars, storedSinceGet, completedSinceGet>>

\* detachCondition() under internal_mutex_
DetachCondition ==
  /\ nAttachDetach < MaxAttachDetach
  /\ gc_internal_mutex_[gc] = {}
  /\ gc_condition_mutex_' = [gc_condition_mutex_ EXCEPT ![gc] = NULL]
  /\ nAttachDetach' = nAttachDetach + 1
  /\ UNCHANGED <<has_triggered_, gc_internal_mutex_, mutex, pcT, nTriggers, waiterVars,
                 callVars, storedSinceGet, completedSinceGet>>

\* a hasTriggered() that clears what it read
GcHasTriggeredClearing ==
  /\ nPeek < MaxPeek
  /\ gcCall' = [op |-> "hasTriggered", ret |-> has_triggered_[gc]]
  /\ has_triggered_' = [has_triggered_ EXCEPT ![gc] = FALSE]
  /\ nPeek' = nPeek + 1
  /\ UNCHANGED <<gc_internal_mutex_, gc_condition_mutex_, mutex, pcT, nTriggers,
                 waiterVars, nAttachDetach, getResults, storedSinceGet, completedSinceGet>>

\* hasTriggered(): return has_triggered_
GcHasTriggered ==
  /\ nPeek < MaxPeek
  /\ gcCall' = [op |-> "hasTriggered", ret |-> has_triggered_[gc]]
  /\ nPeek' = nPeek + 1
  /\ UNCHANGED <<gcVars, mutex, pcT, nTriggers, waiterVars, nAttachDetach, getResults,
                 storedSinceGet, completedSinceGet>>

\* a load in place of the exchange
AtomicLoad(value, desired) == [ret |-> value, stored |-> value]

\* std::atomic_bool::exchange(desired)
AtomicExchange(value, desired) == [ret |-> value, stored |-> desired]

\* getHasTriggered(): return has_triggered_.exchange(false)
GcGetHasTriggered ==
  /\ Len(getResults) < MaxGet
  /\ has_triggered_' = [has_triggered_ EXCEPT ![gc] = AtomicExchange(@, FALSE).stored]
  /\ gcCall' = [op |-> "getHasTriggered", ret |-> AtomicExchange(has_triggered_[gc], FALSE).ret]
  /\ getResults' = Append(getResults, AtomicExchange(has_triggered_[gc], FALSE).ret)
  /\ storedSinceGet' = {}
  /\ completedSinceGet' = FALSE
  /\ UNCHANGED <<gc_internal_mutex_, gc_condition_mutex_, mutex, pcT, nTriggers,
                 waiterVars, nAttachDetach, nPeek>>

\* the waiter thread of TriggerNotifiesCondition: unique_lock lock(mutex)
WaiterLock ==
  /\ pcWaiter = "idle"
  /\ mutex = {}
  /\ mutex' = {WaiterTestThread}
  /\ pcWaiter' = "pred"
  /\ UNCHANGED <<gcVars, pcT, nTriggers, notified, waiterTimedOut, nWaiterSpurious,
                 nAttachDetach, callVars, storedSinceGet, completedSinceGet>>

\* cv.wait_for(lock, 1000ms, pred): the predicate is evaluated first; when it
\* is false the thread releases the mutex and blocks in one step
WaiterPredicate ==
  /\ pcWaiter = "pred"
  /\ mutex' = Unlock(mutex, WaiterTestThread)
  /\ IF has_triggered_[gc]
       THEN /\ notified' = TRUE
            /\ pcWaiter' = "done"
       ELSE /\ pcWaiter' = "cv_block"
            /\ UNCHANGED notified
  /\ UNCHANGED <<gcVars, pcT, nTriggers, waiterTimedOut, nWaiterSpurious, nAttachDetach,
                 callVars, storedSinceGet, completedSinceGet>>

\* a wake-up nobody sent
WaiterSpuriousWakeup ==
  /\ pcWaiter = "cv_block"
  /\ nWaiterSpurious < MaxSpurious
  /\ nWaiterSpurious' = nWaiterSpurious + 1
  /\ pcWaiter' = "cv_reacquire"
  /\ UNCHANGED <<gcVars, mutex, pcT, nTriggers, notified, waiterTimedOut, nAttachDetach,
                 callVars, storedSinceGet, completedSinceGet>>

\* the 1000 ms of the wait_for pass
WaiterDeadline ==
  /\ pcWaiter = "cv_block"
  /\ waiterTimedOut' = TRUE
  /\ pcWaiter' = "cv_reacquire"
  /\ UNCHANGED <<gcVars, mutex, pcT, nTriggers, notified, nWaiterSpurious, nAttachDetach,
                 callVars, storedSinceGet, completedSinceGet>>

\* the woken thread takes the mutex again and evaluates the predicate: true
\* ends the wait, false after the deadline ends it with false, false before
\* the deadline blocks again; the mutex is released in each case
WaiterReacquire ==
  /\ pcWaiter = "cv_reacquire"
  /\ mutex = {}
  /\ IF has_triggered_[gc]
       THEN /\ notified' = TRUE
            /\ pcWaiter' = "done"
       ELSE /\ pcWaiter' = IF waiterTimedOut THEN "done" ELSE "cv_block"
            /\ UNCHANGED notified
  /\ UNCHANGED <<gcVars, mutex, pcT, nTriggers, waiterTimedOut, nWaiterSpurious,
                 nAttachDetach, callVars, storedSinceGet, completedSinceGet>>

InitLife ==
  /\ init_options = ZeroInitOptions
  /\ context = ZeroContext
  /\ node_ = NullNode
  /\ created_publishers = <<>>
  /\ lifeCall = NoCall
  /\ nLifeCalls = 0
  /\ shutdownOk = FALSE
  /\ created_subscriptions = <<>>
  /\ guard_condition_handle_ = NullGuard

\* every call of the lifecycle interface is counted and its return recorded
Returns(op, ret) ==
  /\ nLifeCalls < MaxLifeCalls
  /\ nLifeCalls' = nLifeCalls + 1
  /\ lifeCall' = [op |-> op, ret |-> ret]

\* libp2p_c__rmw_init_options_init
RmwInitOptionsInit ==
  IF init_options.implementation_identifier # NullStr
    THEN /\ Returns("rmw_init_options_init", RMW_RET_INVALID_ARGUMENT)
         /\ UNCHANGED <<init_options, context, node_, created_publishers, shutdownOk,
                 gcVars, apiVars>>
    ELSE /\ init_options' = [implementation_identifier |-> libp2p_identifier, enclave |-> NullStr]
         /\ Returns("rmw_init_options_init", RMW_RET_OK)
         /\ UNCHANGED <<context, node_, created_publishers, shutdownOk,
                 gcVars, apiVars>>

\* the fixtures' init_options_.enclave = rcutils_strdup("/", allocator)
SetEnclave ==
  /\ init_options.implementation_identifier # NullStr
  /\ init_options.enclave = NullStr
  /\ init_options' = [init_options EXCEPT !.enclave = "/"]
  /\ UNCHANGED <<context, node_, created_publishers, lifeCall, nLifeCalls, shutdownOk,
                 gcVars, apiVars>>

\* libp2p_c__rmw_init_options_fini
RmwInitOptionsFini ==
  IF init_options.implementation_identifier # libp2p_identifier
    THEN /\ Returns("rmw_init_options_fini", RMW_RET_INCORRECT_RMW_IMPLEMENTATION)
         /\ UNCHANGED <<init_options, context, node_, created_publishers, shutdownOk,
                 gcVars, apiVars>>
    ELSE /\ init_options' = ZeroInitOptions
         /\ Returns("rmw_init_options_fini", RMW_RET_OK)
         /\ UNCHANGED <<context, node_, created_publishers, shutdownOk,
                 gcVars, apiVars>>

\* libp2p_c__rmw_init: the options must be initialized and carry an enclave,
\* the context must be zero-initialized
RmwInit ==
  IF \/ init_options.implementation_identifier = NullStr
     \/ init_options.enclave = NullStr
     \/ context.implementation_identifier # NullStr
    THEN /\ Returns("rmw_init", RMW_RET_INVALID_ARGUMENT)
         /\ UNCHANGED <<init_options, context, node_, created_publishers, shutdownOk,
                 gcVars, apiVars>>
    ELSE /\ context' = [implementation_identifier |-> libp2p_identifier,
                        impl |-> NewContextImpl,
                        options |-> init_options]
         /\ shutdownOk' = FALSE
         /\ Returns("rmw_init", RMW_RET_OK)
         /\ UNCHANGED <<init_options, node_, created_publishers,
                 gcVars, apiVars>>

\* libp2p_c__rmw_shutdown: the argument checks, then RMW_RET_OK; nothing of
\* the context is written
RmwShutdown ==
  IF context.impl = NullImpl
    THEN /\ Returns("rmw_shutdown", RMW_RET_INVALID_ARGUMENT)
         /\ UNCHANGED <<init_options, context, node_, created_publishers, shutdownOk,
                 gcVars, apiVars>>
    ELSE /\ Returns("rmw_shutdown", RMW_RET_OK)
         /\ shutdownOk' = TRUE
         /\ UNCHANGED <<init_options, context, node_, created_publishers,
                 gcVars, apiVars>>

\* the fixtures' context_.impl->is_shutdown = true between rmw_shutdown and
\* rmw_context_fini
TestSetsIsShutdown ==
  /\ context.impl # NullImpl
  /\ lifeCall.op = "rmw_shutdown"
  /\ lifeCall.ret = RMW_RET_OK
  /\ ~ context.impl.is_shutdown
  /\ context' = [context EXCEPT !.impl.is_shutdown = TRUE]
  /\ UNCHANGED <<init_options, node_, created_publishers, lifeCall, nLifeCalls, shutdownOk,
                 gcVars, apiVars>>

\* libp2p_c__rmw_context_fini; the record of the call also says whether
\* rmw_shutdown had returned RMW_RET_OK for this context
FiniReturns(ret) ==
  /\ nLifeCalls < MaxLifeCalls
  /\ nLifeCalls' = nLifeCalls + 1
  /\ lifeCall' = [op |-> "rmw_context_fini", ret |-> ret, after_shutdown |-> shutdownOk]

RmwContextFini ==
  IF context.impl = NullImpl
    THEN /\ FiniReturns(RMW_RET_INVALID_ARGUMENT)
         /\ UNCHANGED <<init_options, context, node_, created_publishers, shutdownOk,
                 gcVars, apiVars>>
    ELSE IF ~ context.impl.is_shutdown
      THEN /\ FiniReturns(RMW_RET_INVALID_ARGUMENT)
           /\ UNCHANGED <<init_options, context, node_, created_publishers, shutdownOk,
                 gcVars, apiVars>>
      ELSE /\ context' = ZeroContext
           /\ shutdownOk' = FALSE
           /\ FiniReturns(IF context.options.implementation_identifier = libp2p_identifier
                            THEN RMW_RET_OK ELSE RMW_RET_INCORRECT_RMW_IMPLEMENTATION)
           /\ UNCHANGED <<init_options, node_, created_publishers,
                 gcVars, apiVars>>

\* libp2p_c__rmw_create_node: nullptr for a context that is not initialized
\* or is shut down, else a node handle
RmwCreateNode ==
  /\ node_ = NullNode
  /\ IF context.impl = NullImpl \/ context.implementation_identifier # libp2p_identifier
       THEN /\ Returns("rmw_create_node", "nullptr")
            /\ UNCHANGED node_
       ELSE IF context.impl.is_shutdown
         THEN /\ Returns("rmw_create_node", "nullptr")
              /\ UNCHANGED node_
         ELSE /\ node_' = [implementation_identifier |-> libp2p_identifier]
              /\ Returns("rmw_create_node", "node handle")
  /\ UNCHANGED <<init_options, context, created_publishers, shutdownOk,
                 gcVars, apiVars>>

\* rmw_create_publisher(node_, type support, topic_name, qos, options): nullptr
\* for a null node or an empty topic name, else a publisher handle that
\* carries the topic name
RmwCreatePublisher(topic_name) ==
  /\ Len(created_publishers) < MaxCreatedPublishers
  /\ IF node_ = NullNode \/ topic_name = ""
       THEN /\ Returns("rmw_create_publisher", "nullptr")
            /\ UNCHANGED created_publishers
       ELSE /\ created_publishers' =
                 Append(created_publishers,
                        [implementation_identifier |-> libp2p_identifier,
                         topic_name |-> topic_name])
            /\ Returns("rmw_create_publisher", "publisher handle")
  /\ UNCHANGED <<init_options, context, node_, shutdownOk,
                 gcVars, apiVars>>

\* rmw_destroy_publisher(node, publisher): both arguments are cast to void
\* and RMW_RET_ERROR is returned
RmwDestroyPublisher(node, publisher) ==
  /\ lifeCall' = [op |-> "rmw_destroy_publisher", ret |-> RMW_RET_ERROR,
                  node |-> node, publisher |-> publisher]
  /\ nLifeCalls < MaxLifeCalls
  /\ nLifeCalls' = nLifeCalls + 1
  /\ UNCHANGED <<init_options, context, node_, created_publishers, shutdownOk,
                 gcVars, apiVars>>

\* rmw_create_subscription(node_, type support, topic_name, qos, options):
\* nullptr for a null node or an empty topic name, else a subscription handle
\* that carries the topic name
RmwCreateSubscription(topic_name) ==
  /\ Len(created_subscriptions) < MaxCreatedSubscriptions
  /\ IF node_ = NullNode \/ node_.implementation_identifier # libp2p_identifier
        \/ topic_name = ""
       THEN /\ Returns("rmw_create_subscription", "nullptr")
            /\ UNCHANGED created_subscriptions
       ELSE /\ created_subscriptions' =
                 Append(created_subscriptions,
                        [implementation_identifier |-> libp2p_identifier,
                         topic_name |-> topic_name])
            /\ Returns("rmw_create_subscription", "subscription handle")
  /\ UNCHANGED <<init_options, context, node_, created_publishers, shutdownOk, gcVars,
                 guard_condition_handle_>>

\* rmw_destroy_subscription(node, subscription): both arguments are cast to
\* void and RMW_RET_OK is returned
RmwDestroySubscription(node, subscription) ==
  /\ lifeCall' = [op |-> "rmw_destroy_subscription", ret |-> RMW_RET_OK,
                  node |-> node, subscription |-> subscription]
  /\ nLifeCalls < MaxLifeCalls
  /\ nLifeCalls' = nLifeCalls + 1
  /\ UNCHANGED <<init_options, context, node_, created_publishers, shutdownOk, gcVars,
                 apiVars>>

\* libp2p_c__rmw_create_guard_condition(&context_): nullptr for a context of
\* another implementation, else a handle whose data is a new GuardCondition
\* (has_triggered_ false, nothing attached)
RmwCreateGuardCondition ==
  /\ guard_condition_handle_ = NullGuard
  /\ IF context.implementation_identifier # libp2p_identifier
       THEN /\ Returns("rmw_create_guard_condition", "nullptr")
            /\ UNCHANGED <<gcVars, guard_condition_handle_>>
       ELSE /\ guard_condition_handle_' =
                 [implementation_identifier |-> libp2p_identifier, data |-> gc]
            /\ has_triggered_' = [has_triggered_ EXCEPT ![gc] = FALSE]
            /\ gc_condition_mutex_' = [gc_condition_mutex_ EXCEPT ![gc] = NULL]
            /\ UNCHANGED gc_internal_mutex_
            /\ Returns("rmw_create_guard_condition", "guard condition handle")
  /\ UNCHANGED <<init_options, context, node_, created_publishers, shutdownOk,
                 created_subscriptions>>

\* what a call with a null handle can end in: assert(guard_condition_handle)
\* ends the process where assertions are compiled in; where they are not,
\* the handle is dereferenced
NullHandleOutcomes == {"aborted by assert", "null handle dereferenced"}

\* the record of a rmw_trigger_guard_condition call: the handle it was given,
\* what it returned and the flags as they were before the call
TriggerReturns(handle, ret) ==
  /\ nLifeCalls < MaxLifeCalls
  /\ nLifeCalls' = nLifeCalls + 1
  /\ lifeCall' = [op |-> "rmw_trigger_guard_condition", ret |-> ret, handle |-> handle,
                  before |-> has_triggered_]

\* rmw_trigger_guard_condition(guard_condition_handle): the assert, the
\* identifier check, then GuardCondition::trigger() on the handle's data,
\* which with nothing attached sets has_triggered_
RmwTriggerGuardCondition(guard_condition_handle) ==
  /\ IF guard_condition_handle = NullGuard
       THEN /\ \E outcome \in NullHandleOutcomes :
                 TriggerReturns(guard_condition_handle, outcome)
            /\ UNCHANGED gcVars
       ELSE IF guard_condition_handle.implementation_identifier # libp2p_identifier
         THEN /\ TriggerReturns(guard_condition_handle, RMW_RET_ERROR)
              /\ UNCHANGED gcVars
         ELSE /\ has_triggered_' =
                   [has_triggered_ EXCEPT ![guard_condition_handle.data] = StoreTrue(@)]
              /\ UNCHANGED <<gc_internal_mutex_, gc_condition_mutex_>>
              /\ TriggerReturns(guard_condition_handle, RMW_RET_OK)
  /\ UNCHANGED <<init_options, context, node_, created_publishers, shutdownOk, apiVars>>

\* the values a buffer is written with: every width at its boundary values
\* (the 64-bit and unsigned 32-bit ones within the range of the integers
\* here), floats, bool, char, narrow and wide strings with the empty ones
FieldValues ==
  <<[type |-> "uint8", value |-> 0], [type |-> "uint8", value |-> 255],
    [type |-> "int8", value |-> 0 - 128], [type |-> "int8", value |-> 0 - 1],
    [type |-> "int8", value |-> 127],
    [type |-> "uint16", value |-> 0], [type |-> "uint16", value |-> 65535],
    [type |-> "int16", value |-> 0 - 32768], [type |-> "int16", value |-> 32767],
    [type |-> "uint32", value |-> 0], [type |-> "uint32", value |-> 2147483647],
    [type |-> "int32", value |-> (0 - 2147483647) - 1], [type |-> "int32", value |-> 0 - 1],
    [type |-> "int32", value |-> 2147483647],
    [type |-> "uint64", value |-> 0], [type |-> "uint64", value |-> 65536],
    [type |-> "int64", value |-> 0 - 1], [type |-> "int64", value |-> 8388607],
    [type |-> "bool", value |-> FALSE], [type |-> "bool", value |-> TRUE],
    [type |-> "char", value |-> 0], [type |-> "char", value |-> 65],
    [type |-> "float", value |-> "1.5"], [type |-> "float", value |-> "-1.0"],
    [type |-> "double", value |-> "1.5"], [type |-> "double", value |-> "-1.0"],
    [type |-> "string", value |-> <<>>], [type |-> "string", value |-> <<104, 105>>],
    [type |-> "u16string", value |-> <<>>], [type |-> "u16string", value |-> <<26085>>],
    [type |-> "u16string", value |-> <<26085, 26412>>]>>

FieldTypes == {FieldValues[i].type : i \in DOMAIN FieldValues}

\* the sequences of at most MaxFields of these values, by their indices
FieldChoices == UNION {[1..n -> DOMAIN FieldValues] : n \in 1..MaxFields}
FieldsAt(idx) == [i \in DOMAIN idx |-> FieldValues[idx[i]]]

\* sizeof of the fixed-width types
Width(type) ==
  CASE type \in {"uint8", "int8", "bool", "char"} -> 1
    [] type \in {"uint16", "int16", "char16"} -> 2
    [] type \in {"uint32", "int32", "float"} -> 4
    [] type \in {"uint64", "int64", "double"} -> 8

\* the n low bytes of v in two's complement, low byte first
RECURSIVE LowBytes(_, _)
LowBytes(v, n) == IF n = 0 THEN <<>> ELSE <<v % 256>> \o LowBytes(v \div 256, n - 1)

\* the signed value of bytes given low byte first
RECURSIVE SignedValue(_)
SignedValue(b) == IF Len(b) = 1 THEN ToInt8(b[1]) ELSE b[1] + 256 * SignedValue(Tail(b))

\* the unsigned value of bytes given low byte first; values of 2^31 and
\* more are outside the integers here and stand as -1
RECURSIVE UnsignedBelow(_)
UnsignedBelow(b) == IF Len(b) = 0 THEN 0 ELSE b[1] + 256 * UnsignedBelow(Tail(b))
Representable(b) == Len(b) < 4 \/ (b[4] < 128 /\ \A i \in 5..Len(b) : b[i] = 0)
UnsignedValue(b) ==
  IF Representable(b)
    THEN UnsignedBelow(SubSeq(b, 1, IF Len(b) < 4 THEN Len(b) ELSE 4))
    ELSE 0 - 1

\* IEEE 754 single and double precision bit patterns, low byte first
FloatBits == [v \in {"0.0", "1.5", "-1.0"} |->
                CASE v = "0.0" -> <<0, 0, 0, 0>>
                  [] v = "1.5" -> <<0, 0, 192, 63>>
                  [] v = "-1.0" -> <<0, 0, 128, 191>>]
DoubleBits == [v \in {"0.0", "1.5", "-1.0"} |->
                 CASE v = "0.0" -> <<0, 0, 0, 0, 0, 0, 0, 0>>
                   [] v = "1.5" -> <<0, 0, 0, 0, 0, 0, 248, 63>>
                   [] v = "-1.0" -> <<0, 0, 0, 0, 0, 0, 240, 191>>]

\* the value whose bit pattern the bytes are; patterns outside the table
\* stand for some other number
FromBits(table, b) ==
  IF \E v \in DOMAIN table : table[v] = b
    THEN CHOOSE v \in DOMAIN table : table[v] = b
    ELSE "other"

\* rs_libp2p_cdr_buffer_write_<type> of a fixed-width value: the bytes appended
RsWrite(type, v) ==
  CASE type = "bool" -> <<IF v THEN 1 ELSE 0>>
    [] type = "float" -> FloatBits[v]
    [] type = "double" -> DoubleBits[v]
    [] type = "int64" -> WriteInt64(v)
    [] OTHER -> LowBytes(v, Width(type))

\* the value rs_libp2p_cdr_buffer_read_<type> stores for the bytes it read
RsDecode(type, b) ==
  CASE type = "bool" -> b[1] # 0
    [] type = "float" -> FromBits(FloatBits, b)
    [] type = "double" -> FromBits(DoubleBits, b)
    [] type = "int64" -> ReadInt64(b)
    [] type \in {"int8", "int16", "int32", "char"} -> SignedValue(b)
    [] OTHER -> UnsignedValue(b)

\* rs_libp2p_cdr_buffer_read_<type> at the cursor: the value stored through
\* the pointer and the cursor after the read; when fewer bytes than the width
\* are left the destination keeps what it held and the read is marked
RsRead(buf, pos, type, dest) ==
  IF pos + Width(type) - 1 <= Len(buf)
    THEN [value |-> RsDecode(type, SubSeq(buf, pos, pos + Width(type) - 1)),
          pos |-> pos + Width(type), underrun |-> FALSE]
    ELSE [value |-> dest, pos |-> pos, underrun |-> TRUE]

\* the 4-byte length prefix of a string at the cursor; a length of 2^31 or
\* more is read as one beyond every buffer
RsReadLength(buf, pos) ==
  IF pos + Uint32Len - 1 <= Len(buf)
    THEN [value |-> IF Representable(SubSeq(buf, pos, pos + Uint32Len - 1))
                      THEN UnsignedBelow(SubSeq(buf, pos, pos + Uint32Len - 1))
                      ELSE 2147483647,
          pos |-> pos + Uint32Len, underrun |-> FALSE]
    ELSE [value |-> 0, pos |-> pos, underrun |-> TRUE]

\* rs_libp2p_cdr_buffer_write_string: 4-byte length, then the bytes
RsWriteString(s) == LowBytes(Len(s), Uint32Len) \o s

\* rs_libp2p_cdr_buffer_write_u16string: 4-byte length, then the code units
RECURSIVE Units(_)
Units(s) == IF s = <<>> THEN <<>> ELSE LowBytes(Head(s), 2) \o Units(Tail(s))
RsWriteU16String(s) == LowBytes(Len(s), Uint32Len) \o Units(s)

\* rs_libp2p_cdr_buffer_read_string: the length prefix, then that many bytes;
\* the cursor ends behind the string
RsReadString(buf, pos) ==
  LET n == RsReadLength(buf, pos)
  IN IF n.underrun \/ n.value > Len(buf) \/ n.pos + n.value - 1 > Len(buf)
       THEN [value |-> <<>>, pos |-> pos, underrun |-> TRUE]
       ELSE [value |-> SubSeq(buf, n.pos, n.pos + n.value - 1),
             pos |-> n.pos + n.value, underrun |-> FALSE]

\* k values of a fixed-width type read one after the other into
\* destinations that hold dest
RECURSIVE ReadValues(_, _, _, _, _)
ReadValues(buf, pos, type, dest, k) ==
  IF k = 0
    THEN [value |-> <<>>, pos |-> pos, underrun |-> FALSE]
    ELSE LET r == RsRead(buf, pos, type, dest)
             rest == ReadValues(buf, r.pos, type, dest, k - 1)
         IN [value |-> <<r.value>> \o rest.value, pos |-> rest.pos,
             underrun |-> r.underrun \/ rest.underrun]

\* rs_libp2p_cdr_buffer_read_u16string: the length prefix, then that many
\* code units; the cursor ends behind the string
RsReadU16String(buf, pos) ==
  LET n == RsReadLength(buf, pos)
  IN IF n.underrun \/ n.value > Len(buf) \/ n.pos + 2 * n.value - 1 > Len(buf)
       THEN [value |-> <<>>, pos |-> pos, underrun |-> TRUE]
       ELSE ReadValues(buf, n.pos, "char16", 0, n.value)

\* what the caller's variable holds before a read
Uninitialized(type) ==
  CASE type = "bool" -> FALSE
    [] type \in {"float", "double"} -> "0.0"
    [] type \in {"string", "u16string"} -> <<>>
    [] OTHER -> 0

\* WriteCDRBuffer::operator<<
WriteField(f) ==
  CASE f.type = "string" -> RsWriteString(f.value)
    [] f.type = "u16string" -> RsWriteU16String(f.value)
    [] OTHER -> RsWrite(f.type, f.value)

\* ReadCDRBuffer::operator>>(std::u16string &): read_u16string for the size,
\* s.resize(size), then size times *this >> s[i] at the cursor
ReadU16StringField(buf, pos) ==
  LET r == RsReadU16String(buf, pos)
      units == ReadValues(buf, r.pos, "char16", 0, Len(r.value))
  IN [value |-> units.value, pos |-> units.pos, underrun |-> r.underrun \/ units.underrun]

\* ReadCDRBuffer::operator>>
ReadField(buf, pos, type) ==
  CASE type = "string" -> RsReadString(buf, pos)
    [] type = "u16string" -> ReadU16StringField(buf, pos)
    [] OTHER -> RsRead(buf, pos, type, Uninitialized(type))

\* nothing written, nothing read
InitCodecState ==
  /\ buffer_ = <<>>
  /\ nWritten = 0
  /\ rpos = 1
  /\ readValues = <<>>
  /\ codec_status = "running"

InitCodec == fields = <<>> /\ InitCodecState

\* ser << fields[nWritten + 1]
CodecWrite ==
  /\ nWritten < Len(fields)
  /\ buffer_' = buffer_ \o WriteField(fields[nWritten + 1])
  /\ nWritten' = nWritten + 1
  /\ UNCHANGED <<fields, rpos, readValues, codec_status>>

\* deser >> x for a variable x of the given type. A read that runs out of
\* bytes either returns with the variable as it was or ends the process
\* (the Rust side panics); operator>> has no other way out.
ReadOf(type) ==
  LET r == ReadField(buffer_, rpos, type)
      rec == [type |-> type, value |-> r.value, consumed |-> r.pos - rpos,
              underrun |-> r.underrun]
  IN \/ /\ readValues' = Append(readValues, [rec EXCEPT !.consumed = r.pos - rpos]
                                               @@ [status |-> "returned"])
        /\ rpos' = r.pos
        /\ UNCHANGED codec_status
     \/ /\ r.underrun
        /\ readValues' = Append(readValues, rec @@ [status |-> "panicked"])
        /\ codec_status' = "panicked"
        /\ UNCHANGED rpos

\* the fields are read back with the types they were written with
CodecRead ==
  /\ codec_status = "running"
  /\ nWritten = Len(fields)
  /\ Len(readValues) < Len(fields)
  /\ ReadOf(fields[Len(readValues) + 1].type)
  /\ UNCHANGED <<fields, buffer_, nWritten>>

\* one more read after every written field has been read
CodecReadPastEnd(type) ==
  /\ codec_status = "running"
  /\ nWritten = Len(fields)
  /\ Len(readValues) >= Len(fields)
  /\ Len(readValues) < Len(fields) + MaxExtraReads
  /\ ReadOf(type)
  /\ UNCHANGED <<fields, buffer_, nWritten>>

\* ----------------------------------------------- several rmw_wait at a time
InitMw ==
  /\ wsPc = [w \in Waiters |-> "idle"]
  /\ wsSubscribers = [w \in Waiters |-> <<>>]
  /\ wsServices = [w \in Waiters |-> <<>>]
  /\ wsClients = [w \in Waiters |-> <<>>]
  /\ wsTimeoutArg = [w \in Waiters |-> NoTimeout]
  /\ wsIdx = [w \in Waiters |-> 1]
  /\ wsTimeout = [w \in Waiters |-> FALSE]
  /\ wsCvTimedOut = [w \in Waiters |-> FALSE]
  /\ wsRet = [w \in Waiters |-> RMW_RET_OK]
  /\ wsListed = [w \in Waiters |-> <<>>]
  /\ wsReadyEndpoints = [w \in Waiters |-> {}]
  /\ wsMutex = [w \in Waiters |-> {}]
  /\ lsQueue = [l \in WsListeners |-> <<>>]
  /\ lsInternal = [l \in WsListeners |-> {}]
  /\ lsPair = [l \in WsListeners |-> NULL]
  /\ tpPc = "idle"
  /\ tpListener = SubListener
  /\ apPc = "idle"
  /\ apListener = SubListener
  /\ nWsCalls = 0
  /\ nLsPush = 0
  /\ nLsTake = 0

wsFrame == <<wsSubscribers, wsServices, wsClients, wsTimeoutArg, wsIdx, wsTimeout,
             wsCvTimedOut, wsRet, wsListed>>
lsVars == <<lsQueue, lsInternal, lsPair>>
tpVars == <<tpPc, tpListener>>
apVars == <<apPc, apListener>>
wsCounts == <<nWsCalls, nLsPush, nLsTake>>

\* a null entry of an array has been dereferenced: the process is gone
WsAlive == \A w \in Waiters : wsPc[w] # "crashed"

\* a thread is inside message_queue_.push or message_queue_.pop of listener l
WriteInProgress(l) ==
  \/ (tpPc = "push" /\ tpListener = l)
  \/ (apPc = "pop" /\ apListener = l)

\* Listener::has_data: message_queue_.size() > 0, read with no lock taken. A
\* read while another thread is inside push or pop is a data race, its
\* result is any of the two
HasDataResults(l) ==
  IF WriteInProgress(l) THEN BOOLEAN ELSE {Len(lsQueue[l]) > 0}

\* check_wait_set_for_data: the subscribers only, null entries skipped;
\* services and clients are not looked at
CheckResults(subs) ==
  IF \E i \in 1..Len(subs) : subs[i] # NULL /\ TRUE \in HasDataResults(subs[i])
    THEN IF \A i \in 1..Len(subs) : subs[i] # NULL => FALSE \in HasDataResults(subs[i])
           THEN BOOLEAN ELSE {TRUE}
    ELSE {FALSE}

\* the elements of an array
Entries(a) == {a[i] : i \in 1..Len(a)}

\* entry of libp2p_c__rmw_wait on the caller's own wait set, with arrays
\* filled in by the caller or with the arrays as the caller's previous wait
\* left them
WsWaitCall(w, args, t) ==
  /\ WsAlive
  /\ wsPc[w] \in {"idle", "done"}
  /\ nWsCalls < MaxWsCalls
  /\ nWsCalls' = nWsCalls + 1
  /\ wsSubscribers' = [wsSubscribers EXCEPT ![w] = args.subscribers]
  /\ wsServices' = [wsServices EXCEPT ![w] = args.services]
  /\ wsClients' = [wsClients EXCEPT ![w] = args.clients]
  /\ wsListed' = [wsListed EXCEPT ![w] = args.subscribers]
  /\ wsReadyEndpoints' = [wsReadyEndpoints EXCEPT ![w] =
        {l \in Entries(args.services) \cup Entries(args.clients) : lsQueue[l] # <<>>}]
  /\ wsTimeoutArg' = [wsTimeoutArg EXCEPT ![w] = t]
  /\ wsIdx' = [wsIdx EXCEPT ![w] = 1]
  /\ wsTimeout' = [wsTimeout EXCEPT ![w] = FALSE]
  /\ wsCvTimedOut' = [wsCvTimedOut EXCEPT ![w] = FALSE]
  /\ wsPc' = [wsPc EXCEPT ![w] = "attach"]
  /\ UNCHANGED <<wsRet, wsMutex, lsVars, tpVars, apVars, nLsPush, nLsTake>>

\* lines 90-96: subscribers[i]'s listener_->attach_condition, with no null
\* check on the entry; services and clients are not attached
WsAttach(w) ==
  /\ WsAlive
  /\ wsPc[w] = "attach"
  /\ IF wsIdx[w] > Len(wsSubscribers[w])
       THEN /\ wsPc' = [wsPc EXCEPT ![w] = "lock"]
            /\ UNCHANGED <<lsPair, wsIdx>>
       ELSE IF wsSubscribers[w][wsIdx[w]] = NULL
         THEN /\ wsPc' = [wsPc EXCEPT ![w] = "crashed"]
              /\ UNCHANGED <<lsPair, wsIdx>>
         ELSE /\ lsInternal[wsSubscribers[w][wsIdx[w]]] = {}
              /\ lsPair' = [lsPair EXCEPT ![wsSubscribers[w][wsIdx[w]]] = w]
              /\ wsIdx' = [wsIdx EXCEPT ![w] = @ + 1]
              /\ UNCHANGED wsPc
  /\ UNCHANGED <<wsSubscribers, wsServices, wsClients, wsTimeoutArg, wsTimeout, wsCvTimedOut,
                 wsRet, wsListed, wsReadyEndpoints, wsMutex, lsQueue, lsInternal, tpVars,
                 apVars, wsCounts>>

\* line 102: unique_lock lock(*condition_mutex)
WsLock(w) ==
  /\ WsAlive
  /\ wsPc[w] = "lock"
  /\ wsMutex[w] = {}
  /\ wsMutex' = [wsMutex EXCEPT ![w] = {w}]
  /\ wsPc' = [wsPc EXCEPT ![w] = "check"]
  /\ UNCHANGED <<wsFrame, wsReadyEndpoints, lsVars, tpVars, apVars, wsCounts>>

\* lines 104-122: has_data = check_wait_set_for_data(...), then wait or
\* wait_for (which release the mutex and block while the predicate is
\* false) or, for a zero timeout, timeout = true
WsCheck(w) ==
  /\ WsAlive
  /\ wsPc[w] = "check"
  /\ \E data_found \in CheckResults(wsSubscribers[w]) :
       IF data_found
         THEN /\ wsPc' = [wsPc EXCEPT ![w] = "unlock"]
              /\ UNCHANGED <<wsTimeout, wsMutex>>
         ELSE IF wsTimeoutArg[w] # NoTimeout /\ ~ WaitsForDuration(wsTimeoutArg[w])
           THEN /\ wsPc' = [wsPc EXCEPT ![w] = "unlock"]
                /\ wsTimeout' = [wsTimeout EXCEPT ![w] = TRUE]
                /\ UNCHANGED wsMutex
           ELSE /\ wsPc' = [wsPc EXCEPT ![w] = "cv_block"]
                /\ wsMutex' = [wsMutex EXCEPT ![w] = Unlock(@, w)]
                /\ UNCHANGED wsTimeout
  /\ UNCHANGED <<wsSubscribers, wsServices, wsClients, wsTimeoutArg, wsIdx, wsCvTimedOut,
                 wsRet, wsListed, wsReadyEndpoints, lsVars, tpVars, apVars, wsCounts>>

\* wait_for only: the duration elapses while the waiter is blocked
WsDeadline(w) ==
  /\ WsAlive
  /\ wsPc[w] = "cv_block"
  /\ wsTimeoutArg[w] # NoTimeout /\ WaitsForDuration(wsTimeoutArg[w])
  /\ wsCvTimedOut' = [wsCvTimedOut EXCEPT ![w] = TRUE]
  /\ wsPc' = [wsPc EXCEPT ![w] = "cv_reacquire"]
  /\ UNCHANGED <<wsSubscribers, wsServices, wsClients, wsTimeoutArg, wsIdx, wsTimeout, wsRet,
                 wsListed, wsReadyEndpoints, wsMutex, lsVars, tpVars, apVars, wsCounts>>

\* the woken waiter takes the mutex again and evaluates the predicate: after
\* the deadline wait_for returns it and line 118 sets timeout = !that; before
\* it, true ends the wait and false blocks again
WsReacquire(w) ==
  /\ WsAlive
  /\ wsPc[w] = "cv_reacquire"
  /\ wsMutex[w] = {}
  /\ \E data_found \in CheckResults(wsSubscribers[w]) :
       IF wsCvTimedOut[w]
         THEN /\ wsPc' = [wsPc EXCEPT ![w] = "unlock"]
              /\ wsTimeout' = [wsTimeout EXCEPT ![w] = ~ data_found]
              /\ wsMutex' = [wsMutex EXCEPT ![w] = {w}]
         ELSE IF data_found
           THEN /\ wsPc' = [wsPc EXCEPT ![w] = "unlock"]
                /\ wsMutex' = [wsMutex EXCEPT ![w] = {w}]
                /\ UNCHANGED wsTimeout
           ELSE /\ wsPc' = [wsPc EXCEPT ![w] = "cv_block"]
                /\ UNCHANGED <<wsMutex, wsTimeout>>
  /\ UNCHANGED <<wsSubscribers, wsServices, wsClients, wsTimeoutArg, wsIdx, wsCvTimedOut,
                 wsRet, wsListed, wsReadyEndpoints, lsVars, tpVars, apVars, wsCounts>>

\* line 129: lock.unlock()
WsUnlock(w) ==
  /\ WsAlive
  /\ wsPc[w] = "unlock"
  /\ wsMutex' = [wsMutex EXCEPT ![w] = Unlock(@, w)]
  /\ wsIdx' = [wsIdx EXCEPT ![w] = 1]
  /\ wsPc' = [wsPc EXCEPT ![w] = "detach"]
  /\ UNCHANGED <<wsSubscribers, wsServices, wsClients, wsTimeoutArg, wsTimeout, wsCvTimedOut,
                 wsRet, wsListed, wsReadyEndpoints, lsVars, tpVars, apVars, wsCounts>>

\* line 135: subscribers[i]'s listener_->detach_condition(), with no null
\* check on the entry; the entries are the ones the attach loop went
\* through, so none of them is null here
WsDetach(w) ==
  /\ WsAlive
  /\ wsPc[w] = "detach"
  /\ wsIdx[w] <= Len(wsSubscribers[w])
  /\ lsInternal[wsSubscribers[w][wsIdx[w]]] = {}
  /\ lsPair' = [lsPair EXCEPT ![wsSubscribers[w][wsIdx[w]]] = NULL]
  /\ wsPc' = [wsPc EXCEPT ![w] = "post_check"]
  /\ UNCHANGED <<wsFrame, wsReadyEndpoints, wsMutex, lsQueue, lsInternal, tpVars, apVars,
                 wsCounts>>

\* lines 136-138: if (!has_data()) subscribers[i] = 0, with no lock held
WsPostCheck(w) ==
  /\ WsAlive
  /\ wsPc[w] = "post_check"
  /\ \E data_found \in HasDataResults(wsSubscribers[w][wsIdx[w]]) :
       wsSubscribers' = IF data_found
                          THEN wsSubscribers
                          ELSE [wsSubscribers EXCEPT ![w][wsIdx[w]] = NULL]
  /\ wsIdx' = [wsIdx EXCEPT ![w] = @ + 1]
  /\ wsPc' = [wsPc EXCEPT ![w] = "detach"]
  /\ UNCHANGED <<wsServices, wsClients, wsTimeoutArg, wsTimeout, wsCvTimedOut, wsRet,
                 wsListed, wsReadyEndpoints, wsMutex, lsVars, tpVars, apVars, wsCounts>>

\* line 142: return timeout ? RMW_RET_TIMEOUT : RMW_RET_OK
WsReturn(w) ==
  /\ WsAlive
  /\ wsPc[w] = "detach"
  /\ wsIdx[w] > Len(wsSubscribers[w])
  /\ wsRet' = [wsRet EXCEPT ![w] = IF wsTimeout[w] THEN RMW_RET_TIMEOUT ELSE RMW_RET_OK]
  /\ wsPc' = [wsPc EXCEPT ![w] = "done"]
  /\ UNCHANGED <<wsSubscribers, wsServices, wsClients, wsTimeoutArg, wsIdx, wsTimeout,
                 wsCvTimedOut, wsListed, wsReadyEndpoints, wsMutex, lsVars, tpVars, apVars,
                 wsCounts>>

\* Listener::on_publication: lock_guard on internal_mutex_, then the branch
\* on condition_mutex_
LsOnPublicationBegin(l) ==
  /\ WsAlive
  /\ tpPc = "idle"
  /\ nLsPush < MaxLsPush
  /\ lsInternal[l] = {}
  /\ lsInternal' = [lsInternal EXCEPT ![l] = {TransportThread}]
  /\ nLsPush' = nLsPush + 1
  /\ tpListener' = l
  /\ tpPc' = IF lsPair[l] # NULL THEN "lock_cond" ELSE "push"
  /\ UNCHANGED <<wsPc, wsFrame, wsReadyEndpoints, wsMutex, lsQueue, lsPair, apVars, nWsCalls,
                 nLsTake>>

\* unique_lock clock(*listener->condition_mutex_)
LsOnPublicationLockCond ==
  /\ WsAlive
  /\ tpPc = "lock_cond"
  /\ wsMutex[lsPair[tpListener]] = {}
  /\ wsMutex' = [wsMutex EXCEPT ![lsPair[tpListener]] = {TransportThread}]
  /\ tpPc' = "push"
  /\ UNCHANGED <<wsPc, wsFrame, wsReadyEndpoints, lsVars, tpListener, apVars, wsCounts>>

\* message_queue_.push; attached: clock.unlock() follows, then the notify;
\* detached: the function returns and internal_mutex_ is released
LsOnPublicationPush ==
  /\ WsAlive
  /\ tpPc = "push"
  /\ lsQueue' = [lsQueue EXCEPT ![tpListener] = QueuePush(@, nLsPush)]
  /\ IF lsPair[tpListener] # NULL
       THEN /\ wsMutex' = [wsMutex EXCEPT ![lsPair[tpListener]] = Unlock(@, TransportThread)]
            /\ tpPc' = "notify"
            /\ UNCHANGED lsInternal
       ELSE /\ lsInternal' = [lsInternal EXCEPT ![tpListener] = Unlock(@, TransportThread)]
            /\ tpPc' = "idle"
            /\ UNCHANGED wsMutex
  /\ UNCHANGED <<wsPc, wsFrame, wsReadyEndpoints, lsPair, tpListener, apVars, wsCounts>>

\* condition_variable_->notify_one() on the attached pair, then the
\* lock_guard releases internal_mutex_
LsOnPublicationNotify ==
  /\ WsAlive
  /\ tpPc = "notify"
  /\ wsPc' = [wsPc EXCEPT ![lsPair[tpListener]] = NotifyOne(@)]
  /\ lsInternal' = [lsInternal EXCEPT ![tpListener] = Unlock(@, TransportThread)]
  /\ tpPc' = "idle"
  /\ UNCHANGED <<wsFrame, wsReadyEndpoints, wsMutex, lsQueue, lsPair, tpListener, apVars,
                 wsCounts>>

\* Listener::take_next_data: lock_guard on internal_mutex_
LsTakeNextDataBegin(l) ==
  /\ WsAlive
  /\ apPc = "idle"
  /\ nLsTake < MaxLsTake
  /\ lsInternal[l] = {}
  /\ lsInternal' = [lsInternal EXCEPT ![l] = {TakerThread}]
  /\ nLsTake' = nLsTake + 1
  /\ apListener' = l
  /\ apPc' = "pop"
  /\ UNCHANGED <<wsPc, wsFrame, wsReadyEndpoints, wsMutex, lsQueue, lsPair, tpVars, nWsCalls,
                 nLsPush>>

\* empty: return false; else front, pop, return true; internal_mutex_ is
\* released
LsTakeNextDataEnd ==
  /\ WsAlive
  /\ apPc = "pop"
  /\ lsQueue' = [lsQueue EXCEPT ![apListener] = IF @ = <<>> THEN @ ELSE QueuePop(@)]
  /\ wsReadyEndpoints' = [w \in Waiters |->
        IF lsQueue[apListener] = <<>> THEN wsReadyEndpoints[w]
                                      ELSE wsReadyEndpoints[w] \ {apListener}]
  /\ lsInternal' = [lsInternal EXCEPT ![apListener] = Unlock(@, TakerThread)]
  /\ apPc' = "idle"
  /\ UNCHANGED <<wsPc, wsFrame, wsMutex, lsPair, tpVars, apListener, wsCounts>>

InitSvc ==
  /\ pcS = [t \in ServiceThreads |-> "idle"]
  /\ sKey = [t \in ServiceThreads |-> 0]
  /\ nTakenRequests = 0

Init == InitWait /\ InitRpc /\ InitClass /\ InitLife /\ InitCodec /\ InitSvc /\ InitMw

MaxRequests == 2

\* std::map::find(key) != end()
MapFind(m, k) == k \in DOMAIN m

\* std::map::emplace: inserts only when the key is absent
MapEmplace(m, k, v) ==
  IF k \in DOMAIN m THEN m ELSE [x \in DOMAIN m \cup {k} |-> IF x = k THEN v ELSE m[x]]

\* an erase that is left out
MapEraseOmitted(m, k) == m

\* std::map::erase(iterator)
MapErase(m, k) == [x \in DOMAIN m \ {k} |-> m[x]]

\* rs_libp2p_custom_publisher_publish: the subscribed listener later receives
\* the published bytes as they are
PublishedBytes(ser) == ser

\* the listener a publisher's messages are handed to: the service's for the
\* client's request publisher, the client's for a response publisher
SubscriberOf(pub) == IF pub = ClientPublisher THEN ServiceListener ELSE ClientListener

\* a counter that does not advance
NextSequenceNumberStuck(n) == n

\* rs_libp2p_custom_publisher_get_sequence_number: the next sequence number
NextSequenceNumber(n) == n + 1

\* the header loop of rmw_send_request / rmw_send_response:
\* ser << static_cast<int8_t>(request_guid.data[i])
WriteGid(gid) == [i \in 1..GidLen |-> FromInt8(ToInt8(gid[i]))]

\* the header read of rmw_take_request / rmw_take_response: secs and usecs
\* first, then 16 int8_t values into writer_guid, then sequence_number
ReadHeader(buf) ==
  RequestId([i \in 1..GidLen |-> ToInt8(ReadBytes(buf, 1 + Uint64Len + Uint32Len, GidLen)[i])],
            ReadInt64(ReadBytes(buf, 1 + Uint64Len + Uint32Len + GidLen, Int64Len)))

\* the cursor position after the header read
HeaderEnd == 1 + Uint64Len + Uint32Len + GidLen + Int64Len

\* ---------------------------------------------------------- rmw_send_request
RmwSendRequest(ros_request) ==
  /\ nRequests < MaxRequests
  /\ nRequests' = nRequests + 1
  /\ sequence_number' = NextSequenceNumber(sequence_number)
  /\ inflight' = inflight \cup
       {[to |-> SubscriberOf(ClientPublisher),
         topic |-> publisher_topic[ClientPublisher],
         bytes |-> PublishedBytes(WriteGid(PublisherGid(ClientPublisher))
                                  \o WriteInt64(NextSequenceNumber(sequence_number))
                                  \o SerializeRosMessage(ros_request)),
         origin |-> [payload |-> ros_request,
                     sequence_id |-> NextSequenceNumber(sequence_number)]]}
  /\ call' = [op |-> "send_request", ret |-> RMW_RET_OK,
              sequence_id |-> NextSequenceNumber(sequence_number)]
  /\ UNCHANGED <<buffers, nPublishers, publisher_topic, requests_, returnedIds,
                 outstanding, nInserted, nErased>>
  /\ UNCHANGED waitVars

\* the transport thread hands a published message to the subscribed
\* listener: Listener::on_publication with a fresh buffer
DeliverMessage(d, m) ==
  /\ m \in inflight
  /\ OnPublicationBegin(d, m.to, Len(buffers) + 1)
  /\ buffers' = Append(buffers, [bytes |-> m.bytes, origin |-> m.origin])
  /\ inflight' = inflight \ {m}
  /\ UNCHANGED <<sequence_number, nPublishers, publisher_topic, requests_, call,
                 returnedIds, outstanding, nInserted, nErased, nRequests>>

\* a flag that starts out set
TakenLeftSet == TRUE

\* rmw_take_request / rmw_take_response: *taken = false before the listener
\* is asked for data
TakenUnset == FALSE

\* ---------------------------------------------------------- rmw_take_request
RmwTakeRequest ==
  /\ internal_mutex_[ServiceListener] = {}
  /\ IF message_queue_[ServiceListener] = <<>>
       THEN /\ call' = [op |-> "take_request", ret |-> RMW_RET_OK, taken |-> TakenUnset]
            /\ UNCHANGED <<message_queue_, taken, nPublishers, publisher_topic, requests_,
                           returnedIds, outstanding, nInserted>>
       ELSE LET buf == buffers[QueueFront(message_queue_[ServiceListener])]
                id == ReadHeader(buf.bytes)
            IN /\ message_queue_' = [message_queue_ EXCEPT ![ServiceListener] = QueuePop(@)]
               /\ taken' = [taken EXCEPT ![ServiceListener] =
                              Append(@, QueueFront(message_queue_[ServiceListener]))]
               /\ nPublishers' = nPublishers + 1
               /\ publisher_topic' = Append(publisher_topic,
                                             TakeRequestTopic(ServiceName, id.writer_guid))
               /\ requests_' = MapEmplace(requests_, id, nPublishers + 1)
               /\ nInserted' = IF MapFind(requests_, id) THEN nInserted ELSE nInserted + 1
               /\ returnedIds' = returnedIds \cup {id}
               /\ outstanding' = outstanding \cup {id}
               /\ call' = [op |-> "take_request", ret |-> RMW_RET_OK, taken |-> TRUE,
                           request_id |-> id,
                           ros_message |-> DeserializeRosMessage(buf.bytes, HeaderEnd),
                           origin |-> buf.origin]
  /\ UNCHANGED <<buffers, inflight, sequence_number, nErased, nRequests>>
  /\ UNCHANGED <<internal_mutex_, condition_mutex_, condition_mutex, pcW, subscribers,
                 guard_conditions, wait_timeout, wait_set, postCheck, wIdx, has_data, timeout, cvTimedOut,
                 wRet, nCalls, nSpurious, listed, gcTriggeredBefore, everBlocked, triggeredBlocked,
                 tookDuringWait, pushedAfterUnlock, gcVars, dVars, pushed, nPush,
                 nTrigger, nTake>>

\* --------------------------------------------------------- rmw_send_response
\* a failed lookup that does not return
SendResponseNotFoundIgnored == RMW_RET_OK

\* line 62: the return when requests_.find fails
SendResponseNotFound == RMW_RET_ERROR

\* what the collaborators of rmw_send_response can answer once the entry is
\* found: _serialize_ros_message true and publish status 0, or
\* _serialize_ros_message false, or a publish status other than 0
SendOutcomes == {"published", "cannot serialize data", "cannot send response"}

\* an erase that is done only when the response went out
EraseIfPublished(m, k, returned_value) ==
  IF returned_value = RMW_RET_OK THEN MapErase(m, k) ELSE m

\* line 101: info->requests_.erase(request), whatever returned_value is
EraseRequest(m, k, returned_value) == MapErase(m, k)

\* the record of a rmw_send_response call: found says that requests_.find
\* succeeded, after_failure that the call before it was a rmw_send_response
\* for the same id that found the entry and returned an error
SendResponseReturns(request_header, ros_response, ret, found) ==
  call' = [op |-> "send_response", ret |-> ret, request_id |-> request_header,
           ros_message |-> ros_response, found |-> found,
           after_failure |-> /\ call.op = "send_response"
                             /\ call.request_id = request_header
                             /\ call.found
                             /\ call.ret = RMW_RET_ERROR]

RmwSendResponse(request_header, ros_response, outcome) ==
  /\ outstanding' = outstanding \ {request_header}
  /\ IF ~ MapFind(requests_, request_header)
       THEN /\ outcome = "published"
            /\ SendResponseReturns(request_header, ros_response, SendResponseNotFound, FALSE)
            /\ inflight' = IF SendResponseNotFound = RMW_RET_ERROR
                             THEN inflight
                             ELSE inflight \cup {[to |-> ClientListener, topic |-> <<>>,
                                                  bytes |-> <<>>,
                                                  origin |-> [payload |-> ros_response,
                                                              request_id |-> request_header]]}
            /\ UNCHANGED <<requests_, nErased>>
       ELSE LET pub == requests_[request_header]
                ser == WriteGid(PublisherGid(pub))
                         \o WriteInt64(request_header.sequence_number)
                         \o SerializeRosMessage(ros_response)
                returned_value == IF outcome = "published" THEN RMW_RET_OK ELSE RMW_RET_ERROR
            IN /\ inflight' = IF outcome = "published"
                                THEN inflight \cup
                                       {[to |-> SubscriberOf(pub), topic |-> publisher_topic[pub],
                                         bytes |-> PublishedBytes(ser),
                                         origin |-> [payload |-> ros_response,
                                                     request_id |-> request_header]]}
                                ELSE inflight
               /\ requests_' = EraseRequest(requests_, request_header, returned_value)
               /\ nErased' = nErased + 1
               /\ SendResponseReturns(request_header, ros_response, returned_value, TRUE)
  /\ UNCHANGED <<buffers, sequence_number, nPublishers, publisher_topic, returnedIds,
                 nInserted, nRequests>>
  /\ UNCHANGED waitVars

\* --------------------------------------------------------- rmw_take_response
RmwTakeResponse ==
  /\ internal_mutex_[ClientListener] = {}
  /\ IF message_queue_[ClientListener] = <<>>
       THEN /\ call' = [op |-> "take_response", ret |-> RMW_RET_OK, taken |-> TakenUnset]
            /\ UNCHANGED <<message_queue_, taken>>
       ELSE LET buf == buffers[QueueFront(message_queue_[ClientListener])]
            IN /\ message_queue_' = [message_queue_ EXCEPT ![ClientListener] = QueuePop(@)]
               /\ taken' = [taken EXCEPT ![ClientListener] =
                              Append(@, QueueFront(message_queue_[ClientListener]))]
               /\ call' = [op |-> "take_response", ret |-> RMW_RET_OK, taken |-> TRUE,
                           request_id |-> ReadHeader(buf.bytes),
                           ros_message |-> DeserializeRosMessage(buf.bytes, HeaderEnd),
                           origin |-> buf.origin]
  /\ UNCHANGED <<buffers, inflight, sequence_number, nPublishers, publisher_topic,
                 requests_, returnedIds, outstanding, nInserted, nErased, nRequests>>
  /\ UNCHANGED <<internal_mutex_, condition_mutex_, condition_mutex, pcW, subscribers,
                 guard_conditions, wait_timeout, wait_set, postCheck, wIdx, has_data, timeout, cvTimedOut,
                 wRet, nCalls, nSpurious, listed, gcTriggeredBefore, everBlocked, triggeredBlocked,
                 tookDuringWait, pushedAfterUnlock, gcVars, dVars, pushed, nPush,
                 nTrigger, nTake>>

\* ------------------------------------------- threads calling into a service
\* the request id a thread's call is about: the client's identity as int8_t
\* values and the sequence number
ServiceKey(k) ==
  RequestId([i \in 1..GidLen |-> ToInt8(PublisherGid(ClientPublisher)[i])], k)

\* the positions at which a thread is inside a member function of
\* info->requests_, and those of them that modify the map
MapAccesses == {"emplace", "find", "erase"}
MapWrites == {"emplace", "erase"}

\* CustomServiceInfo has no mutex and neither function takes one, so nothing
\* orders the accesses of two threads: thread t's access overlaps one of
\* another thread that conflicts with it
Overlapping(t) ==
  \E u \in ServiceThreads \ {t} :
    /\ pcS[u] \in MapAccesses
    /\ (pcS[t] \in MapWrites \/ pcS[u] \in MapWrites)

\* no call has ended the process
SvcAlive == \A t \in ServiceThreads : pcS[t] # "crashed"

\* rmw_take_request up to line 142: the request is taken from the listener
\* (under the listener's lock), the header decoded, the publisher created;
\* the thread enters requests_.emplace
SvcTakeRequestBegin(t) ==
  /\ SvcAlive
  /\ pcS[t] = "idle"
  /\ nTakenRequests < MaxServiceRequests
  /\ nTakenRequests' = nTakenRequests + 1
  /\ pcS' = [pcS EXCEPT ![t] = "emplace"]
  /\ sKey' = [sKey EXCEPT ![t] = nTakenRequests + 1]
  /\ UNCHANGED requests_

\* line 142: requests_.emplace returns and so does rmw_take_request; an
\* emplace that overlapped another access is undefined: the entry is there,
\* or it is not, or the process ends
SvcEmplaceEnd(t) ==
  /\ SvcAlive
  /\ pcS[t] = "emplace"
  /\ \/ /\ requests_' = MapEmplace(requests_, ServiceKey(sKey[t]), sKey[t] + 1)
        /\ pcS' = [pcS EXCEPT ![t] = "idle"]
     \/ /\ Overlapping(t)
        /\ UNCHANGED requests_
        /\ pcS' = [pcS EXCEPT ![t] = "idle"]
     \/ /\ Overlapping(t)
        /\ UNCHANGED requests_
        /\ pcS' = [pcS EXCEPT ![t] = "crashed"]
  /\ UNCHANGED <<sKey, nTakenRequests>>

\* rmw_send_response up to line 59, for a request id that a rmw_take_request
\* has returned: the thread enters requests_.find
SvcSendResponseBegin(t, k) ==
  /\ SvcAlive
  /\ pcS[t] = "idle"
  /\ k \in 1..nTakenRequests
  /\ \A u \in ServiceThreads : ~ (pcS[u] = "emplace" /\ sKey[u] = k)
  /\ pcS' = [pcS EXCEPT ![t] = "find"]
  /\ sKey' = [sKey EXCEPT ![t] = k]
  /\ UNCHANGED <<requests_, nTakenRequests>>

\* lines 59-63: find returns; not found ends the call with RMW_RET_ERROR,
\* found goes on to serialize and publish. A find that overlapped a
\* modification is undefined: either answer, or the process ends
SvcFindEnd(t) ==
  /\ SvcAlive
  /\ pcS[t] = "find"
  /\ \E found \in IF Overlapping(t) THEN BOOLEAN
                                    ELSE {MapFind(requests_, ServiceKey(sKey[t]))} :
       pcS' = [pcS EXCEPT ![t] = IF found THEN "publish" ELSE "idle"]
  /\ UNCHANGED <<requests_, sKey, nTakenRequests>>

\* the process ends inside a find that overlapped a modification
SvcFindCrash(t) ==
  /\ SvcAlive
  /\ pcS[t] = "find"
  /\ Overlapping(t)
  /\ pcS' = [pcS EXCEPT ![t] = "crashed"]
  /\ UNCHANGED <<requests_, sKey, nTakenRequests>>

\* lines 65-101: the response is serialized and published, the thread enters
\* requests_.erase(request)
SvcEraseBegin(t) ==
  /\ SvcAlive
  /\ pcS[t] = "publish"
  /\ pcS' = [pcS EXCEPT ![t] = "erase"]
  /\ UNCHANGED <<requests_, sKey, nTakenRequests>>

\* line 101: erase returns and so does rmw_send_response; an erase that
\* overlapped another access is undefined: the entry is gone, or it is not,
\* or the process ends
SvcEraseEnd(t) ==
  /\ SvcAlive
  /\ pcS[t] = "erase"
  /\ \/ /\ requests_' = MapErase(requests_, ServiceKey(sKey[t]))
        /\ pcS' = [pcS EXCEPT ![t] = "idle"]
     \/ /\ Overlapping(t)
        /\ UNCHANGED requests_
        /\ pcS' = [pcS EXCEPT ![t] = "idle"]
     \/ /\ Overlapping(t)
        /\ UNCHANGED requests_
        /\ pcS' = [pcS EXCEPT ![t] = "crashed"]
  /\ UNCHANGED <<sKey, nTakenRequests>>

\* ------------------------------------------------------------ specifications
\* the wait machine: one waiter, the deliverers and the takers
Next ==
  /\ UNCHANGED <<rpcVars, classVars, lifeVars, codecVars, svcVars, mwVars>>
  /\ \/ \E d \in Deliverers, l \in Listeners : OnPublicationBegin(d, l, nPush + 1)
     \/ \E d \in Deliverers : OnPublicationLockCond(d)
     \/ \E d \in Deliverers : OnPublicationPush(d)
     \/ \E d \in Deliverers : OnPublicationNotify(d)
     \/ \E l \in Listeners : TakeNextData(l)
     \/ \E d \in Deliverers, g \in Guards : Trigger(d, g)
     \/ \E g \in Guards : GetHasTriggered(g)
     \/ \E subs \in SubscriberArrays, gcs \in GuardArrays, t \in Timeouts,
           ws \in {NULL, WaitSetPair} : WaitCall(subs, gcs, t, ws)
     \/ WaitAttach
     \/ WaitLock
     \/ WaitCheck
     \/ WaitPredicate
     \/ SpuriousWakeup
     \/ DeadlineElapses
     \/ WaitReacquire
     \/ WaitUnlock
     \/ WaitDetach
     \/ WaitPostCheck
     \/ WaitReturn

Spec == Init /\ [][Next]_vars

\* the scheduler lets every thread that can take a step take one and the
\* duration of a wait_for passes; spurious wake-ups and calls by the
\* application are not forced
Fairness ==
  /\ \A d \in Deliverers :
       /\ WF_vars(OnPublicationLockCond(d) /\ UNCHANGED <<rpcVars, classVars, lifeVars, codecVars, svcVars, mwVars>>)
       /\ WF_vars(OnPublicationPush(d) /\ UNCHANGED <<rpcVars, classVars, lifeVars, codecVars, svcVars, mwVars>>)
       /\ WF_vars(OnPublicationNotify(d) /\ UNCHANGED <<rpcVars, classVars, lifeVars, codecVars, svcVars, mwVars>>)
  /\ WF_vars(WaitAttach /\ UNCHANGED <<rpcVars, classVars, lifeVars, codecVars, svcVars, mwVars>>)
  /\ WF_vars(WaitLock /\ UNCHANGED <<rpcVars, classVars, lifeVars, codecVars, svcVars, mwVars>>)
  /\ WF_vars(WaitCheck /\ UNCHANGED <<rpcVars, classVars, lifeVars, codecVars, svcVars, mwVars>>)
  /\ WF_vars(WaitPredicate /\ UNCHANGED <<rpcVars, classVars, lifeVars, codecVars, svcVars, mwVars>>)
  /\ WF_vars(WaitReacquire /\ UNCHANGED <<rpcVars, classVars, lifeVars, codecVars, svcVars, mwVars>>)
  /\ WF_vars(DeadlineElapses /\ UNCHANGED <<rpcVars, classVars, lifeVars, codecVars, svcVars, mwVars>>)
  /\ WF_vars(WaitUnlock /\ UNCHANGED <<rpcVars, classVars, lifeVars, codecVars, svcVars, mwVars>>)
  /\ WF_vars(WaitDetach /\ UNCHANGED <<rpcVars, classVars, lifeVars, codecVars, svcVars, mwVars>>)
  /\ WF_vars(WaitPostCheck /\ UNCHANGED <<rpcVars, classVars, lifeVars, codecVars, svcVars, mwVars>>)
  /\ WF_vars(WaitReturn /\ UNCHANGED <<rpcVars, classVars, lifeVars, codecVars, svcVars, mwVars>>)

FairSpec == Spec /\ Fairness

\* the request/response correlation: one client, one service, the transport
RpcNext ==
  /\ UNCHANGED <<classVars, lifeVars, codecVars, svcVars, mwVars>>
  /\ \/ \E p \in Payloads : RmwSendRequest(p)
     \/ \E d \in Deliverers, m \in inflight : DeliverMessage(d, m)
     \/ RmwTakeRequest
     \/ \E id \in returnedIds \cup {UnknownId}, r \in Payloads, outcome \in SendOutcomes :
          RmwSendResponse(id, r, outcome)
     \/ RmwTakeResponse

RpcSpec == Init /\ [][RpcNext]_vars

\* the GuardCondition class and the threads of its tests
GcNext ==
  /\ UNCHANGED <<waitRest, rpcVars, lifeVars, codecVars, svcVars, mwVars>>
  /\ \/ \E t \in TriggerThreads : GcTriggerBegin(t)
     \/ \E t \in TriggerThreads : GcTriggerLockCond(t)
     \/ \E t \in TriggerThreads : GcTriggerSet(t)
     \/ \E t \in TriggerThreads : GcTriggerNotify(t)
     \/ AttachCondition
     \/ DetachCondition
     \/ GcHasTriggered
     \/ GcGetHasTriggered
     \/ WaiterLock
     \/ WaiterPredicate
     \/ WaiterSpuriousWakeup
     \/ WaiterDeadline
     \/ WaiterReacquire

GcSpec == Init /\ [][GcNext]_vars

\* every started thread keeps running: the trigger threads and the attach
\* thread finish their loops and the waiter takes its steps; the deadline of
\* the wait_for, spurious wake-ups and the calls of the main thread are not
\* forced
GcFairness ==
  /\ \A t \in TriggerThreads :
       /\ WF_vars(GcTriggerBegin(t) /\ UNCHANGED <<waitRest, rpcVars, lifeVars, codecVars, svcVars, mwVars>>)
       /\ WF_vars(GcTriggerLockCond(t) /\ UNCHANGED <<waitRest, rpcVars, lifeVars, codecVars, svcVars, mwVars>>)
       /\ WF_vars(GcTriggerSet(t) /\ UNCHANGED <<waitRest, rpcVars, lifeVars, codecVars, svcVars, mwVars>>)
       /\ WF_vars(GcTriggerNotify(t) /\ UNCHANGED <<waitRest, rpcVars, lifeVars, codecVars, svcVars, mwVars>>)
  /\ WF_vars((AttachCondition \/ DetachCondition) /\ UNCHANGED <<waitRest, rpcVars, lifeVars, codecVars, svcVars, mwVars>>)
  /\ WF_vars(WaiterPredicate /\ UNCHANGED <<waitRest, rpcVars, lifeVars, codecVars, svcVars, mwVars>>)
  /\ WF_vars(WaiterReacquire /\ UNCHANGED <<waitRest, rpcVars, lifeVars, codecVars, svcVars, mwVars>>)

GcFairSpec == GcSpec /\ GcFairness

\* the context, node and publisher lifecycle
LifeNext ==
  /\ UNCHANGED <<waitRest, rpcVars, classVars, codecVars, svcVars, mwVars>>
  /\ \/ RmwInitOptionsInit
     \/ SetEnclave
     \/ RmwInitOptionsFini
     \/ RmwInit
     \/ RmwShutdown
     \/ TestSetsIsShutdown
     \/ RmwContextFini
     \/ RmwCreateNode
     \/ \E topic_name \in TopicNames : RmwCreatePublisher(topic_name)
     \/ \E node \in {NullNode, node_}, publisher \in {NULL} \cup (1..Len(created_publishers)) :
          RmwDestroyPublisher(node, publisher)
     \/ \E topic_name \in TopicNames : RmwCreateSubscription(topic_name)
     \/ \E node \in {NullNode, node_},
           subscription \in {NULL} \cup (1..Len(created_subscriptions)) :
          RmwDestroySubscription(node, subscription)
     \/ RmwCreateGuardCondition
     \/ \E guard_condition_handle \in {NullGuard, guard_condition_handle_} :
          RmwTriggerGuardCondition(guard_condition_handle)

LifeSpec == Init /\ [][LifeNext]_vars

\* the codec: a buffer written with a sequence of values and read back
CodecInit ==
  /\ InitWait /\ InitRpc /\ InitClass /\ InitLife /\ InitSvc /\ InitMw
  /\ \E idx \in FieldChoices : fields = FieldsAt(idx)
  /\ InitCodecState

CodecNext ==
  /\ UNCHANGED <<waitVars, rpcVars, classVars, lifeVars, svcVars, mwVars>>
  /\ \/ CodecWrite
     \/ CodecRead
     \/ \E type \in FieldTypes : CodecReadPastEnd(type)

CodecSpec == CodecInit /\ [][CodecNext]_vars

\* threads of the application calling rmw_take_request and rmw_send_response
\* on one service
SvcNext ==
  /\ UNCHANGED <<waitVars, rpcRest, classVars, lifeVars, codecVars, mwVars>>
  /\ \/ \E t \in ServiceThreads : SvcTakeRequestBegin(t)
     \/ \E t \in ServiceThreads : SvcEmplaceEnd(t)
     \/ \E t \in ServiceThreads, k \in 1..MaxServiceRequests : SvcSendResponseBegin(t, k)
     \/ \E t \in ServiceThreads : SvcFindEnd(t)
     \/ \E t \in ServiceThreads : SvcFindCrash(t)
     \/ \E t \in ServiceThreads : SvcEraseBegin(t)
     \/ \E t \in ServiceThreads : SvcEraseEnd(t)

SvcSpec == Init /\ [][SvcNext]_vars

\* several threads in rmw_wait, the transport thread and a taking thread
MwNext ==
  /\ UNCHANGED <<waitVars, rpcVars, classVars, lifeVars, codecVars, svcVars>>
  /\ \/ \E w \in Waiters, args \in WsArguments, t \in Timeouts : WsWaitCall(w, args, t)
     \/ \E w \in Waiters, t \in Timeouts :
          WsWaitCall(w, [subscribers |-> wsSubscribers[w], services |-> wsServices[w],
                         clients |-> wsClients[w]], t)
     \/ \E w \in Waiters : WsAttach(w)
     \/ \E w \in Waiters : WsLock(w)
     \/ \E w \in Waiters : WsCheck(w)
     \/ \E w \in Waiters : WsDeadline(w)
     \/ \E w \in Waiters : WsReacquire(w)
     \/ \E w \in Waiters : WsUnlock(w)
     \/ \E w \in Waiters : WsDetach(w)
     \/ \E w \in Waiters : WsPostCheck(w)
     \/ \E w \in Waiters : WsReturn(w)
     \/ \E l \in WsListeners : LsOnPublicationBegin(l)
     \/ LsOnPublicationLockCond
     \/ LsOnPublicationPush
     \/ LsOnPublicationNotify
     \/ \E l \in WsListeners : LsTakeNextDataBegin(l)
     \/ LsTakeNextDataEnd

MwSpec == Init /\ [][MwNext]_vars

\* ====================================================================== claims
InWait == pcW \notin {"idle", "done"}

\* C1: no lost wakeup for listeners. Whenever a wait call with no timeout is
\* in progress and a listed listener holds a payload, however the push was
\* interleaved with the attach, the check and the block, the call eventually
\* returns RMW_RET_OK unless the payload is taken first.
C1_NoLostWakeup ==
  \A l \in Listeners :
    (InWait /\ wait_timeout = NoTimeout /\ (\E i \in 1..Len(listed) : listed[i] = l)
       /\ HasData(l))
      ~> ((pcW = "done" /\ wRet = RMW_RET_OK) \/ ~ HasData(l))

\* C1 witness: a wait with no timeout blocked and then returned RMW_RET_OK
C1_Witness ==
  /\ pcW = "done" /\ wRet = RMW_RET_OK /\ wait_timeout = NoTimeout /\ everBlocked
  /\ nTake = 0

\* C2: a guard condition triggered before a wait call that lists it, and not
\* reset since, makes that call return RMW_RET_OK without blocking, for every
\* timeout.
C2_TriggeredGuardReady ==
  (gcTriggeredBefore # {} /\ pcW # "idle")
    => /\ ~ everBlocked
       /\ (pcW = "done" /\ wRet # RMW_RET_ERROR) => wRet = RMW_RET_OK

C4_Fifo ==
  \A l \in Listeners : pushed[l] = taken[l] \o message_queue_[l]

\* C4 witness: two payloads pushed to one listener and the first one taken
C4_Witness ==
  \E l \in Listeners : Len(pushed[l]) = 2 /\ taken[l] = <<pushed[l][1]>>

\* C10 as stated: with no take during the call, RMW_RET_TIMEOUT only with
\* every listed handle cleared, RMW_RET_OK only with a ready handle left set.
C10_Original ==
  (pcW = "done" /\ ~ tookDuringWait /\ wRet # RMW_RET_ERROR)
    => /\ wRet = RMW_RET_TIMEOUT => \A i \in 1..Len(subscribers) : subscribers[i] = NULL
       /\ wRet = RMW_RET_OK =>
            \E i \in 1..Len(subscribers) :
               subscribers[i] # NULL /\ Len(pushed[listed[i]]) > 0

\* C10 amended: with no take during the call, on RMW_RET_TIMEOUT every listed
\* handle is cleared except those of listeners pushed to after the call
\* released the shared mutex, and on RMW_RET_OK some handle of a listener
\* that received a payload is left set.
C10_ResultAgrees ==
  (pcW = "done" /\ ~ tookDuringWait /\ wRet # RMW_RET_ERROR)
    => /\ wRet = RMW_RET_TIMEOUT =>
            \A i \in 1..Len(subscribers) :
               subscribers[i] # NULL => listed[i] \in pushedAfterUnlock
       /\ wRet = RMW_RET_OK =>
            \E i \in 1..Len(subscribers) :
               subscribers[i] # NULL /\ Len(pushed[listed[i]]) > 0

\* C10 witness: RMW_RET_TIMEOUT returned with a handle left set
C10_Witness ==
  /\ pcW = "done" /\ wRet = RMW_RET_TIMEOUT /\ ~ tookDuringWait
  /\ \E i \in 1..Len(subscribers) : subscribers[i] # NULL

\* C5: rmw_send_response for a request id with no entry in requests_ (never
\* returned by rmw_take_request, or already answered) returns RMW_RET_ERROR,
\* publishes nothing and leaves requests_ as it was.
C5_UnknownIdRejected ==
  [][(call' # call /\ call'.op = "send_response"
        /\ ~ MapFind(requests_, call'.request_id))
       => (call'.ret = RMW_RET_ERROR /\ inflight' = inflight /\ requests_' = requests_)]_vars

\* C5 witness: a second rmw_send_response for an id already answered failed
C5_Witness ==
  /\ call.op = "send_response" /\ call.ret = RMW_RET_ERROR
  /\ call.request_id \in returnedIds

\* C6: request round trip. What rmw_take_request decodes from a queued
\* request is the payload given to rmw_send_request, the client's identity
\* and the sequence number rmw_send_request returned.
C6_RequestRoundTrip ==
  (call.op = "take_request" /\ call.taken)
    => /\ call.ros_message = call.origin.payload
       /\ call.request_id.writer_guid =
            [i \in 1..GidLen |-> ToInt8(PublisherGid(ClientPublisher)[i])]
       /\ call.request_id.sequence_number = call.origin.sequence_id

\* C7: response round trip. What rmw_take_response decodes from a queued
\* response is the payload given to rmw_send_response.
C7_ResponseRoundTrip ==
  (call.op = "take_response" /\ call.taken)
    => call.ros_message = call.origin.payload

\* C8: the header of every published response carries the identity of the
\* request id it answers in its first 16 bytes and that id's sequence number
\* in the next 8.
C8_ResponseHeader ==
  \A m \in inflight :
    m.to = ClientListener
      => /\ SubSeq(m.bytes, 1, GidLen) =
              [i \in 1..GidLen |-> FromInt8(m.origin.request_id.writer_guid[i])]
         /\ ReadInt64(ReadBytes(m.bytes, GidLen + 1, Int64Len)) =
              m.origin.request_id.sequence_number

C11_HandleClearing ==
  (pcW = "done" /\ wRet # RMW_RET_ERROR)
    => \A i \in 1..Len(listed) :
         /\ postCheck[i] # "pending"
         /\ postCheck[i] = "empty" => subscribers[i] = NULL
         /\ postCheck[i] \in {"nonempty", "taken"} => subscribers[i] = listed[i]
         /\ postCheck[i] = "nonempty" => message_queue_[listed[i]] # <<>>

\* C11 witness: a call over two listeners returned with the first handle
\* cleared and the second left set
C11_Witness ==
  /\ pcW = "done" /\ wRet # RMW_RET_ERROR
  /\ postCheck = <<"empty", "nonempty">>

\* C12: whenever no wait call is in progress, no listener and no guard
\* condition has a (mutex, condition) pair attached, whatever the last call
\* returned.
C12_AttachDetachPaired ==
  (pcW \in {"idle", "done"})
    => /\ \A l \in Listeners : condition_mutex_[l] = NULL
       /\ \A g \in Guards : gc_condition_mutex_[g] = NULL

\* C12 witness: a call that attached two listeners has returned
\* RMW_RET_TIMEOUT
C12_Witness ==
  pcW = "done" /\ wRet = RMW_RET_TIMEOUT /\ Len(listed) = 2

\* C13: a wait call with no timeout that lists a guard condition and is
\* blocked with nothing ready eventually returns RMW_RET_OK once another
\* thread has triggered that guard condition.
C13_GuardWakesWait ==
  \A g \in Guards :
    (wait_timeout = NoTimeout /\ g \in triggeredBlocked
       /\ \E i \in 1..Len(guard_conditions) : guard_conditions[i] = g)
      ~> (pcW = "done" /\ wRet = RMW_RET_OK)

\* C14: a wait call with a zero timeout never blocks on the condition
\* variable, and returns RMW_RET_TIMEOUT when it found nothing ready.
C14_ZeroTimeoutNoBlock ==
  (wait_timeout = ZeroTimeout /\ pcW # "idle")
    => /\ ~ everBlocked
       /\ pcW \notin {"cv_pred", "cv_block", "cv_reacquire"}
       /\ (pcW = "done" /\ wRet # RMW_RET_ERROR /\ ~ has_data) => wRet = RMW_RET_TIMEOUT

\* C14 witness: a zero-timeout call over listeners, with no guard condition
\* triggered, returned RMW_RET_TIMEOUT
C14_Witness ==
  /\ pcW = "done" /\ wait_timeout = ZeroTimeout /\ wRet = RMW_RET_TIMEOUT
  /\ Len(listed) > 0 /\ \A g \in Guards : ~ has_triggered_[g]

\* C15: a wait call with no timeout never returns RMW_RET_TIMEOUT, and it
\* leaves the wait, after any wake-up, only in a state where a listed
\* listener has data.
C15_NoTimeoutRechecks ==
  /\ []((wait_timeout = NoTimeout /\ pcW # "idle")
          => (~ timeout /\ (pcW = "done" => wRet # RMW_RET_TIMEOUT)))
  /\ [][(wait_timeout = NoTimeout
           /\ pcW \in {"check", "cv_pred", "cv_block", "cv_reacquire"}
           /\ pcW' \notin {"check", "cv_pred", "cv_block", "cv_reacquire"})
          => CheckWaitSetForData(subscribers)]_vars

\* C15 witness: a call with no timeout was woken spuriously and returned
\* RMW_RET_OK afterwards
C15_Witness ==
  /\ pcW = "done" /\ wait_timeout = NoTimeout /\ wRet = RMW_RET_OK
  /\ everBlocked /\ nSpurious = 1

\* C16: when the check under the shared mutex finds a listed listener with
\* data, the call does not block and returns RMW_RET_OK, for every timeout.
C16_ReadySkipsBlocking ==
  (has_data /\ pcW # "idle")
    => /\ ~ everBlocked
       /\ pcW \notin {"cv_pred", "cv_block", "cv_reacquire"}
       /\ pcW = "done" => wRet = RMW_RET_OK

\* C16 witness: a zero-timeout call found data and returned RMW_RET_OK
C16_Witness ==
  pcW = "done" /\ has_data /\ wait_timeout = ZeroTimeout /\ wRet = RMW_RET_OK

\* C17: a wait call with a null wait set returns RMW_RET_ERROR, attaches
\* nothing and leaves the caller's handles as they were passed.
C17_NullWaitSetError ==
  (wait_set = NULL /\ pcW # "idle")
    => /\ pcW = "done" /\ wRet = RMW_RET_ERROR
       /\ subscribers = listed
       /\ \A l \in Listeners : condition_mutex_[l] = NULL

\* C17 witness: a call with a null wait set and two listed listeners returned
C17_Witness ==
  wait_set = NULL /\ pcW = "done" /\ Len(listed) = 2

\* C18: a wait call with a positive timeout terminates; the step that ends
\* the wait sets timeout to "no listed listener has data", so the call
\* returns RMW_RET_TIMEOUT when nothing is ready at the deadline and
\* RMW_RET_OK when something is ready first.
C18_PositiveTimeoutTerminates ==
  /\ (wait_timeout = PositiveTimeout /\ InWait) ~> (pcW = "done")
  /\ [][(wait_timeout = PositiveTimeout /\ pcW # "unlock" /\ pcW' = "unlock")
          => (timeout' = ~ CheckWaitSetForData(subscribers))]_vars
  /\ []((wait_timeout = PositiveTimeout /\ pcW = "done" /\ wRet # RMW_RET_ERROR)
          => wRet = (IF timeout THEN RMW_RET_TIMEOUT ELSE RMW_RET_OK))

\* C18 witness: a call with a positive timeout blocked and returned
\* RMW_RET_TIMEOUT
C18_Witness ==
  /\ pcW = "done" /\ wait_timeout = PositiveTimeout /\ wRet = RMW_RET_TIMEOUT
  /\ everBlocked

\* C19: every request a client publishes is published on the topic the
\* request listener of the service with the same name is subscribed to.
C19_RequestTopicShared ==
  \A m \in inflight :
    m.to = ServiceListener => m.topic = ServiceSubscriptionTopic(ServiceName)

\* C20: the topic of the response publisher rmw_take_request creates is
\* service name + "/response/" + the printed identity of the request id it
\* returned, and it is the topic of the sending client's response
\* subscription.
C20_ResponseTopicDerived ==
  \A id \in DOMAIN requests_ :
    /\ publisher_topic[requests_[id]] = TakeRequestTopic(ServiceName, id.writer_guid)
    /\ publisher_topic[requests_[id]] =
         ClientResponseTopic(ServiceName, PublisherGid(ClientPublisher))

\* the requests sent so far, delivered or not: what rmw_send_request returned
\* for each of them
SentSequenceIds ==
  {m.origin.sequence_id : m \in {x \in inflight : "sequence_id" \in DOMAIN x.origin}}
    \cup {buffers[i].origin.sequence_id :
            i \in {j \in 1..Len(buffers) : "sequence_id" \in DOMAIN buffers[j].origin}}

\* the sequence number field of a published request: the int64 after the
\* 16 writer-guid bytes
HeaderSequenceNumber(bytes) == ReadInt64(SubSeq(bytes, GidLen + 1, GidLen + Int64Len))

C22_GetResetsOnce ==
  [][getResults' # getResults =>
       /\ getResults' = Append(getResults, storedSinceGet # {})
       /\ ~ has_triggered_'[gc]]_vars

\* both threads triggered, one getHasTriggered returned true and the next false
C22_Witness ==
  /\ getResults = <<TRUE, FALSE>>
  /\ \A t \in TriggerThreads : nTriggers[t] = TriggersPerThread

\* C23: hasTriggered returns the flag and changes nothing of the guard
\* condition: the flag, the attached pair and both mutexes are as before
C23_PeekIsPure ==
  [][nPeek' # nPeek =>
       /\ gcCall'.op = "hasTriggered"
       /\ gcCall'.ret = has_triggered_[gc]
       /\ UNCHANGED <<has_triggered_, gc_internal_mutex_, gc_condition_mutex_, mutex,
                      storedSinceGet, completedSinceGet>>]_vars

\* a hasTriggered call returned true and the flag is still set
C23_Witness ==
  /\ gcCall.op = "hasTriggered"
  /\ gcCall.ret
  /\ has_triggered_[gc]

\* C24: when a thread is blocked on the attached condition variable with the
\* predicate hasTriggered and a trigger of another thread has set the flag and
\* is about to notify, the blocked thread eventually returns from the wait
\* with true, unless a getHasTriggered cleared the flag in between; the
\* deadline of the wait is not needed for it
C24_TriggerWakesWaiter ==
  (pcWaiter = "cv_block" /\ has_triggered_[gc] /\ \E t \in TriggerThreads : pcT[t] = "notify")
    ~> ((pcWaiter = "done" /\ notified) \/ ~ has_triggered_[gc])

\* the blocked thread was woken by a trigger: no deadline, no spurious wake-up
C24_Witness ==
  /\ pcWaiter = "cv_reacquire"
  /\ ~ waiterTimedOut
  /\ nWaiterSpurious = 0
  /\ has_triggered_[gc]
  /\ gc_condition_mutex_[gc] = TestPair

\* the trigger threads and the attach thread have finished their loops
ThreadsJoined ==
  /\ \A t \in TriggerThreads : pcT[t] = "idle" /\ nTriggers[t] = TriggersPerThread
  /\ nAttachDetach = MaxAttachDetach

\* C25: threads calling trigger while another thread attaches and detaches
\* the pair all finish, and once a trigger has returned the flag is true
\* until a getHasTriggered resets it
C25_ConcurrentTriggerAttach ==
  /\ [](completedSinceGet => has_triggered_[gc])
  /\ <>ThreadsJoined

\* every thread has finished, the pair was attached and detached in between,
\* and the flag the triggers left is set
C25_Witness ==
  /\ ThreadsJoined
  /\ completedSinceGet
  /\ has_triggered_[gc]

\* the caller-visible effects a take could have: the listeners' queues, the
\* pending-request map, the response publishers and the transport
TakeEffects == <<message_queue_, taken, requests_, nPublishers, publisher_topic, buffers,
                 inflight, returnedIds, outstanding, nInserted, nErased>>

\* C26: a take on an empty queue does not wait for data and changes nothing:
\* rmw_take_request and rmw_take_response are able to return at once, they
\* return RMW_RET_OK with taken = false, and the queue, the pending-request
\* map and the caller's output message are as before (no message is written)
C26_EmptyTakeNoEffect ==
  /\ [](message_queue_[ServiceListener] = <<>> => ENABLED RmwTakeRequest)
  /\ [](message_queue_[ClientListener] = <<>> => ENABLED RmwTakeResponse)
  /\ [][/\ call' # call /\ call'.op = "take_request"
           /\ message_queue_[ServiceListener] = <<>>
        => /\ call'.ret = RMW_RET_OK /\ ~ call'.taken
           /\ DOMAIN call' = {"op", "ret", "taken"}
           /\ UNCHANGED TakeEffects]_vars
  /\ [][/\ call' # call /\ call'.op = "take_response"
           /\ message_queue_[ClientListener] = <<>>
        => /\ call'.ret = RMW_RET_OK /\ ~ call'.taken
           /\ DOMAIN call' = {"op", "ret", "taken"}
           /\ UNCHANGED TakeEffects]_vars

\* rmw_take_response found the client's queue empty while a request taken
\* earlier is pending in the service's map
C26_Witness ==
  /\ call.op = "take_response"
  /\ ~ call.taken
  /\ message_queue_[ClientListener] = <<>>
  /\ DOMAIN requests_ # {}

\* C27: when rmw_init has succeeded and rmw_shutdown has returned RMW_RET_OK
\* for the context, rmw_context_fini returns RMW_RET_OK and leaves the
\* context zero-initialized
C27_FiniAfterShutdown ==
  (lifeCall.op = "rmw_context_fini" /\ lifeCall.after_shutdown)
    => (lifeCall.ret = RMW_RET_OK /\ context = ZeroContext)

\* C30: rmw_destroy_publisher called with the node and a publisher that
\* rmw_create_publisher returned for that node returns RMW_RET_OK
C30_DestroyPublisherOk ==
  (/\ lifeCall.op = "rmw_destroy_publisher"
   /\ node_ # NullNode
   /\ lifeCall.node = node_
   /\ lifeCall.publisher \in 1..Len(created_publishers))
    => lifeCall.ret = RMW_RET_OK

\* C28: a field that is read back with the type it was written with, in the
\* order of writing, comes back with the value that was written and the read
\* consumes exactly the bytes written for it (reads that ran out of bytes
\* are left aside)
C28_CodecRoundTrip ==
  \A i \in 1..Len(readValues) :
    (i <= Len(fields) /\ readValues[i].status = "returned" /\ ~ readValues[i].underrun)
      => /\ readValues[i].value = fields[i].value
         /\ readValues[i].consumed = Len(WriteField(fields[i]))

\* C29: a read that would go past the end of the buffer ends with a
\* buffer-underrun error reported to the caller; it neither returns a value
\* as if it had succeeded nor ends the process
C29_UnderrunReported ==
  \A i \in 1..Len(readValues) :
    readValues[i].underrun => readValues[i].status = "BufferUnderrun"

\* C31: rmw_destroy_subscription returns a result other than RMW_RET_OK when
\* the node argument is null or the subscription argument is null
C31_DestroySubscriptionNull ==
  (/\ lifeCall.op = "rmw_destroy_subscription"
   /\ (lifeCall.node = NullNode \/ lifeCall.subscription = NULL))
    => lifeCall.ret # RMW_RET_OK

\* C32: rmw_trigger_guard_condition called with a null handle returns
\* RMW_RET_INVALID_ARGUMENT and no guard condition's flag changes
C32_TriggerNullHandle ==
  (lifeCall.op = "rmw_trigger_guard_condition" /\ lifeCall.handle = NullGuard)
    => (lifeCall.ret = RMW_RET_INVALID_ARGUMENT /\ has_triggered_ = lifeCall.before)

\* C33: a thread that is about to issue notify_one on the attached condition,
\* in on_publication or in trigger, holds the external mutex of the attached
\* pair; it never holds the internal lock alone at that point
C33_NotifyUnderExternalMutex ==
  /\ \A d \in Deliverers : pcD[d] = "notify" => d \in condition_mutex
  /\ \A t \in TriggerThreads : pcT[t] = "notify" => t \in mutex

\* C38: when rmw_send_response has found the entry of the request id, the
\* entry is gone when the call returns, whether the response was published
\* or serialization or publish failed; a rmw_send_response that repeats the
\* id after such a failure finds nothing and returns RMW_RET_ERROR
C38_ErasedOnFailure ==
  call.op = "send_response"
    => /\ call.found => ~ MapFind(requests_, call.request_id)
       /\ call.after_failure => (call.ret = RMW_RET_ERROR /\ ~ call.found)

\* C38 witness: a rmw_send_response that failed after the entry was found
\* has been repeated with the same id
C38_Witness ==
  /\ call.op = "send_response"
  /\ call.after_failure
  /\ call.request_id \in returnedIds

\* the response publishers rmw_take_request has created
ResponsePublishers == 2..nPublishers

\* the identities of the clients whose requests rmw_take_request has
\* returned: every request of this model is sent by the one client
ServedIdentities == IF returnedIds = {} THEN {} ELSE {PublisherGid(ClientPublisher)}

\* C37: rmw_take_request creates a response publisher only when the service
\* holds none for the derived topic, so the response publishers it has
\* created are at most as many as the client identities it has served, and
\* no two of them are bound to the same topic
C37_ResponsePublisherReuse ==
  /\ Cardinality(ResponsePublishers) <= Cardinality(ServedIdentities)
  /\ \A p, q \in ResponsePublishers : publisher_topic[p] = publisher_topic[q] => p = q

\* C35: accesses to a service's requests_ map are mutually exclusive: no two
\* threads are inside emplace, find or erase on the map at the same time
\* when one of the two modifies it
C35_MapAccessExclusive ==
  \A t, u \in ServiceThreads :
    (t # u /\ pcS[t] \in MapAccesses /\ pcS[u] \in MapAccesses)
      => (pcS[t] \notin MapWrites /\ pcS[u] \notin MapWrites)

\* C40: rmw_wait accepts a subscriptions array that holds cleared (null)
\* handles, such as the array a previous wait left behind, and goes past
\* each null entry without dereferencing it: no call ends in the dereference
\* of a null entry
C40_NullEntriesSkipped ==
  \A w \in Waiters : wsPc[w] # "crashed"

\* waiter w is at a call of has_data on listener l: in
\* check_wait_set_for_data, which stops at the first entry that has data,
\* or at line 136 after the detach
ReadsQueue(w, l) ==
  \/ /\ wsPc[w] = "check"
     /\ \E i \in 1..Len(wsSubscribers[w]) :
          /\ wsSubscribers[w][i] = l
          /\ \A j \in 1..(i - 1) :
               wsSubscribers[w][j] = NULL \/ lsQueue[wsSubscribers[w][j]] = <<>>
  \/ /\ wsPc[w] = "post_check"
     /\ wsSubscribers[w][wsIdx[w]] = l

\* C34: every access to a listener's queue is made under a lock that
\* excludes the others: no waiter is at a has_data read of a queue, in the
\* readiness check or after the detach, while on_publication or
\* take_next_data is inside a modification of that queue
C34_QueueAccessLocked ==
  \A w \in Waiters, l \in WsListeners : ReadsQueue(w, l) => ~ WriteInProgress(l)

\* the service and client listeners of waiter w's call
ListedEndpoints(w) == Entries(wsServices[w]) \cup Entries(wsClients[w])

\* C36: the readiness rmw_wait evaluates covers the service and client
\* listeners passed to it: a wait that lists a service or client listener
\* holding data from its entry to its return returns RMW_RET_OK, and no
\* waiter stays blocked, with no delivery in progress, while a service or
\* client listener it listed holds data
C36_ReadinessCoversEndpoints ==
  \A w \in Waiters :
    /\ (wsPc[w] = "done" /\ wsReadyEndpoints[w] # {}) => wsRet[w] = RMW_RET_OK
    /\ (wsPc[w] = "cv_block" /\ tpPc = "idle")
         => \A l \in ListedEndpoints(w) : lsQueue[l] = <<>>

\* C39: a push to a listener that two concurrent waits on two wait sets
\* list wakes both waiters, also after one of the two has returned and
\* detached: a delivery in progress on a subscription listener notifies the
\* condition variable of every blocked waiter that listed the listener
C39_PushWakesEveryWaiter ==
  \A w \in Waiters :
    (wsPc[w] = "cv_block" /\ tpPc # "idle" /\ tpListener \in Entries(wsSubscribers[w]))
      => lsPair[tpListener] = w

====
